---------------------------- MODULE Spec2Model ----------------------------
(***************************************************************************)
(* A model of py_sd_bus/dbus_proxy.py: the member descriptors, the class   *)
(* construction hook DbusInterfaceMeta.__new__, and the per-instance dual  *)
(* mode dispatch of DbusInterfaceBase and its bound members.               *)
(*                                                                         *)
(* Python values are tagged records.  A Python str the code looks into is  *)
(* a tuple of one-character strings; a str used only as a dictionary key   *)
(* or an identity is a TLA+ string.                                        *)
(***************************************************************************)
EXTENDS Integers, Sequences, FiniteSets, TLC

VARIABLES
    DEFAULT_BUS, \* the module's global of that name
    opened,     \* the handles sd_bus_open has returned, in order
    classes,    \* class name -> class object, every class constructed so far
    last,       \* the outcome of the latest class statement
    objects,    \* instance -> its class and its attributes
    op,         \* the application's current operation on an instance
    sent,       \* the messages handed to the bus engine since op began
    invoked,    \* the calls of local functions made since op began
    registered, \* the interfaces added to a bus by bus.add_interface
    subscribers \* the async generators made by iterating a signal, and their queues

vars == <<DEFAULT_BUS, opened, classes, last, objects, op, sent, invoked, registered, subscribers>>

instanceVars == <<DEFAULT_BUS, opened, objects, op, sent, invoked, registered, subscribers>>

-----------------------------------------------------------------------------
(* Python values *)

None == [type |-> "NoneType"]

PyInt(n) == [type |-> "int", val |-> n]

\* A str: its characters
Str(chars) == [type |-> "str", chars |-> chars]

PyTuple(items) == [type |-> "tuple", items |-> items]

\* A function object: __name__, the positional parameters with the receiver
\* first, the defaults (None or a tuple), and an identity.
Function(qualname, name, args, defaults) ==
    [type |-> "function", qualname |-> qualname, name |-> name,
     args |-> args, defaults |-> defaults]

Range(s) == {s[i] : i \in DOMAIN s}

-----------------------------------------------------------------------------
(* Characters *)

Lower == <<"a", "b", "c", "d", "e", "f", "g", "h", "i", "j", "k", "l", "m",
           "n", "o", "p", "q", "r", "s", "t", "u", "v", "w", "x", "y", "z">>

Upper == <<"A", "B", "C", "D", "E", "F", "G", "H", "I", "J", "K", "L", "M",
           "N", "O", "P", "Q", "R", "S", "T", "U", "V", "W", "X", "Y", "Z">>

Digits == {"0", "1", "2", "3", "4", "5", "6", "7", "8", "9"}

\* str.upper() of one character
upper(c) ==
    IF c \in Range(Lower)
    THEN Upper[CHOOSE i \in DOMAIN Lower : Lower[i] = c]
    ELSE c

RECURSIVE ConvertRest(_, _)
ConvertRest(s, upper_next_one) ==
    IF s = <<>> THEN <<>>
    ELSE IF Head(s) # "_"
         THEN <<IF upper_next_one THEN upper(Head(s)) ELSE Head(s)>>
              \o ConvertRest(Tail(s), FALSE)
         ELSE ConvertRest(Tail(s), TRUE)

\* ''.join(_method_name_converter(python_name)), python_name not empty
_method_name_converter(python_name) ==
    Str(<<upper(Head(python_name.chars))>> \o ConvertRest(Tail(python_name.chars), FALSE))

-----------------------------------------------------------------------------
(* The bus engine's name grammar (sd_bus_internals) *)

IsNameStart(c) == c \in Range(Lower) \cup Range(Upper) \cup {"_"}

IsNameChar(c) == IsNameStart(c) \/ c \in Digits

IsElementValid(chars) ==
    /\ chars # <<>>
    /\ IsNameStart(chars[1])
    /\ \A i \in DOMAIN chars : IsNameChar(chars[i])

is_member_name_valid(name) == IsElementValid(name.chars)

\* The elements of a dotted name, as tuples of characters
RECURSIVE SplitDots(_, _)
SplitDots(s, cur) ==
    IF s = <<>> THEN <<cur>>
    ELSE IF Head(s) = "." THEN <<cur>> \o SplitDots(Tail(s), <<>>)
         ELSE SplitDots(Tail(s), Append(cur, Head(s)))

is_interface_name_valid(name) ==
    LET elements == SplitDots(name.chars, <<>>)
    IN  /\ Len(elements) >= 2
        /\ \A i \in DOMAIN elements : IsElementValid(elements[i])

-----------------------------------------------------------------------------
(* Member descriptors *)

DbusSomethingTypes == {"DbusMethod", "DbusProperty", "DbusSignal"}

\* isinstance(value, DbusSomething)
IsDbusSomething(value) == value.type \in DbusSomethingTypes

\* DbusMethod.__init__ after DbusSomething.__init__
DbusMethod(async_function, method_name, input_signature, result_signature, result_args_names, flags) ==
    LET args_names    == Tail(async_function.args)
        args_defaults == IF async_function.defaults # None
                         THEN async_function.defaults.items
                         ELSE <<>>
    IN  [type |-> "DbusMethod",
         interface_name |-> None,
         serving_enabled |-> TRUE,
         original_method |-> async_function,
         args_spec |-> [args |-> async_function.args,
                        defaults |-> async_function.defaults],
         args_names |-> args_names,
         num_of_args |-> Len(args_names),
         args_defaults |-> args_defaults,
         default_args_start_at |-> Len(args_names) - Len(args_defaults),
         method_name |-> IF method_name = None
                         THEN _method_name_converter(async_function.name)
                         ELSE method_name,
         input_signature |-> input_signature,
         input_args_names |-> Str(<<>>),
         result_signature |-> result_signature,
         result_args_names |-> result_args_names,
         flags |-> flags]

\* @dbus_method(...) applied to a function
dbus_method(method_name, input_signature, result_signature, result_args_names, flags, async_function) ==
    DbusMethod(async_function, method_name, input_signature,
               result_signature, result_args_names, flags)

\* DbusProperty.__init__ after DbusSomething.__init__
DbusProperty(property_name, property_signature, property_get, property_set, flags) ==
    [type |-> "DbusProperty",
     interface_name |-> None,
     serving_enabled |-> TRUE,
     property_name |-> property_name,
     property_signature |-> property_signature,
     property_get |-> property_get,
     property_set |-> property_set,
     flags |-> flags]

\* @dbus_property(...) applied to a function: no setter yet
dbus_property(property_signature, property_name, flags, function) ==
    DbusProperty(IF property_name = None
                 THEN _method_name_converter(function.name)
                 ELSE property_name,
                 property_signature, function, None, flags)

\* DbusProperty.setter
setter(property, new_set_function) ==
    [property EXCEPT !.property_set = new_set_function]

\* DbusSignal.__init__ after DbusSomething.__init__
DbusSignal(signal_name, signature, args_names, flags) ==
    [type |-> "DbusSignal",
     interface_name |-> None,
     serving_enabled |-> TRUE,
     signal_name |-> signal_name,
     signature |-> signature,
     args_names |-> args_names,
     flags |-> flags]

\* dbus_overload(new_function)
dbus_overload(new_function) ==
    [type |-> "DbusOverload", original |-> new_function]

-----------------------------------------------------------------------------
(* Class construction: DbusInterfaceMeta.__new__ *)

\* issubclass(c, ancestor) over the classes of table
RECURSIVE issubclass(_, _, _)
issubclass(table, c, ancestor) ==
    \/ c = ancestor
    \/ \E i \in DOMAIN table[c].bases :
           issubclass(table, table[c].bases[i], ancestor)

\* DeclaredInterfaces that records the Methods only
DeclaredInterfaces_MethodsOnly(namespace) ==
    {key \in DOMAIN namespace : namespace[key].type = "DbusMethod"}

\* The first loop: the keys of the body that hold a descriptor
DeclaredInterfaces(namespace) ==
    {key \in DOMAIN namespace : IsDbusSomething(namespace[key])}

\* The first loop: every descriptor of the body is stamped
Stamp(value, interface_name, serving_enabled) ==
    IF IsDbusSomething(value)
    THEN [value EXCEPT !.interface_name = interface_name,
                       !.serving_enabled = serving_enabled]
    ELSE value

\* The second loop: the declared sets of the direct framework bases
SuperDeclaredInterfaces(table, bases) ==
    UNION {table[bases[i]]._dbus_declared_interfaces :
             i \in {j \in DOMAIN bases :
                      issubclass(table, bases[j], "DbusInterfaceBase")}}

\* Overload that raises only for a plain function
Overload_DescriptorsPass(table, bases, key, value) ==
    IF value.type = "function"
    THEN [exc |-> "TypeError", value |-> value]
    ELSE [exc |-> "ok", value |-> value]

\* The third loop, for one key of the body that a direct base declared:
\* the exception raised ("ok" for none) and the value left at the key.
Overload(table, bases, key, value) ==
    IF value.type = "DbusOverload"
    THEN LET holders == {i \in DOMAIN bases : key \in DOMAIN table[bases[i]].dict}
         IN  IF holders = {}
             THEN [exc |-> "UnboundLocalError", value |-> value]
             ELSE LET base        == bases[CHOOSE i \in holders : \A j \in holders : i <= j]
                      sc_dbus_def == table[base].dict[key]
                  IN  IF ~IsDbusSomething(sc_dbus_def)
                      THEN [exc |-> "AssertionError", value |-> value]
                      ELSE IF sc_dbus_def.type = "DbusMethod"
                      THEN [exc |-> "ok",
                            value |-> [sc_dbus_def EXCEPT !.original_method = value.original]]
                      ELSE [exc |-> "TypeError", value |-> value]
    ELSE [exc |-> "TypeError", value |-> value]

\* DbusInterfaceMeta.__new__: the exceptions the statement can end with (the
\* third loop walks a set, so any offending key may be met first) and, when
\* there is none, the class object.
DbusInterfaceMeta__new__(table, name, bases, namespace, interface_name, serving_enabled) ==
    LET declared_interfaces == DeclaredInterfaces(namespace)
        stamped == [key \in DOMAIN namespace |->
                       Stamp(namespace[key], interface_name, serving_enabled)]
        super_declared_interfaces == SuperDeclaredInterfaces(table, bases)
        overloaded == super_declared_interfaces \cap DOMAIN namespace
        outcome == [key \in overloaded |-> Overload(table, bases, key, stamped[key])]
    IN  [raised |-> {outcome[key].exc : key \in overloaded} \ {"ok"},
         cls |-> [name |-> name,
                  bases |-> bases,
                  dict |-> [key \in DOMAIN namespace |->
                               IF key \in overloaded THEN outcome[key].value
                               ELSE stamped[key]],
                  _dbus_declared_interfaces |-> declared_interfaces \cup overloaded,
                  _dbus_interface_name |-> interface_name,
                  _dbus_serving_enabled |-> serving_enabled]]

-----------------------------------------------------------------------------
(* The classes that exist when the module and the test module are loaded *)

\* A class object built by a class statement that cannot fail
Built(table, name, bases, namespace, interface_name, serving_enabled) ==
    DbusInterfaceMeta__new__(table, name, bases, namespace, interface_name, serving_enabled).cls

Name_ping == Str(<<"p", "i", "n", "g">>)

Name_get_machine_id == Str(<<"g", "e", "t", "_", "m", "a", "c", "h", "i", "n", "e", "_", "i", "d">>)

Name_introspect == Str(<<"i", "n", "t", "r", "o", "s", "p", "e", "c", "t">>)

Name_test_method == Str(<<"t", "e", "s", "t", "_", "m", "e", "t", "h", "o", "d">>)

Name_test_property == Str(<<"t", "e", "s", "t", "_", "p", "r", "o", "p", "e", "r", "t", "y">>)

PeerInterfaceName == Str(<<"o", "r", "g", ".", "f", "r", "e", "e", "d", "e", "s", "k", "t", "o", "p", ".", "D", "B", "u", "s", ".", "P", "e", "e", "r">>)

IntrospectableInterfaceName == Str(<<"o", "r", "g", ".", "f", "r", "e", "e", "d", "e", "s", "k", "t", "o", "p", ".", "D", "B", "u", "s", ".", "I", "n", "t", "r", "o", "s", "p", "e", "c", "t", "a", "b", "l", "e">>)

\* def <name>(self) in the body of class cls
Def(cls, key, name) == Function(<<cls, key>>, name, <<"self">>, None)

\* @dbus_method() with every argument left at its default
PlainDbusMethod(function) == dbus_method(None, Str(<<>>), Str(<<>>), <<>>, 0, function)

T0 == <<>>

DbusInterfaceBase ==
    Built(T0, "DbusInterfaceBase", <<>>,
          [key \in {"__init__", "start_serving", "_connect", "new_connect"} |->
              Function(<<"DbusInterfaceBase", key>>, Str(<<>>), <<"self">>, None)],
          None, TRUE)

T1 == [c \in {"DbusInterfaceBase"} |-> DbusInterfaceBase]

DbusPeerInterface ==
    Built(T1, "DbusPeerInterface", <<"DbusInterfaceBase">>,
          [key \in {"ping", "get_machine_id"} |->
              PlainDbusMethod(Def("DbusPeerInterface", key,
                                  IF key = "ping" THEN Name_ping ELSE Name_get_machine_id))],
          PeerInterfaceName, FALSE)

DbusIntrospectable ==
    Built(T1, "DbusIntrospectable", <<"DbusInterfaceBase">>,
          [key \in {"introspect"} |->
              PlainDbusMethod(Def("DbusIntrospectable", key, Name_introspect))],
          IntrospectableInterfaceName, FALSE)

T2 == [c \in {"DbusInterfaceBase", "DbusPeerInterface", "DbusIntrospectable"} |->
         CASE c = "DbusInterfaceBase" -> DbusInterfaceBase
           [] c = "DbusPeerInterface" -> DbusPeerInterface
           [] c = "DbusIntrospectable" -> DbusIntrospectable]

DbusInterfaceCommon ==
    Built(T2, "DbusInterfaceCommon", <<"DbusPeerInterface", "DbusIntrospectable">>,
          <<>>, None, TRUE)

T3 == ("DbusInterfaceCommon" :> DbusInterfaceCommon) @@ T2

\* The test module's base class
GoodDbusInterface ==
    Built(T3, "GoodDbusInterface", <<"DbusInterfaceCommon">>,
          [key \in {"test_method", "test_property"} |->
              IF key = "test_method"
              THEN PlainDbusMethod(Def("GoodDbusInterface", key, Name_test_method))
              ELSE dbus_property(Str(<<"s">>), None, 0,
                                 Def("GoodDbusInterface", key, Name_test_property))],
          None, TRUE)

LoadedClasses == ("GoodDbusInterface" :> GoodDbusInterface) @@ T3

\* Every class object: the loaded ones and those built since
Table == classes @@ LoadedClasses

-----------------------------------------------------------------------------
(* Class statements *)

MaxUserClasses == 1

UserClassNames == <<"A", "B", "C", "D">>

UserKeys == {"ping", "test_property"}

FunctionName(key) == IF key = "ping" THEN Name_ping ELSE Name_test_property

\* A wire name outside the bus grammar, and interface names in and outside it
BadMemberName == Str(<<"#">>)

GoodInterfaceName == Str(<<"o", "r", "g", ".", "e", "x">>)

BadInterfaceName == Str(<<"0", ".", "t", "e", "s", "t">>)

\* The keyword arguments of a class statement
ClassOptions ==
    {[interface_name |-> None, serving_enabled |-> TRUE],
     [interface_name |-> GoodInterfaceName, serving_enabled |-> TRUE],
     [interface_name |-> GoodInterfaceName, serving_enabled |-> FALSE],
     [interface_name |-> BadInterfaceName, serving_enabled |-> TRUE]}

\* What a class body can bind a key to
BodyValues(cls, key) ==
    LET f == Def(cls, key, FunctionName(key))
    IN  {f, dbus_overload(f)}
        \cup {dbus_method(n, Str(<<>>), Str(<<>>), <<>>, 0, f) : n \in {None, BadMemberName}}
        \cup {dbus_property(Str(<<"s">>), n, 0, f) : n \in {None, BadMemberName}}

Namespaces(cls) ==
    UNION {{ns \in [keys -> UNION {BodyValues(cls, key) : key \in keys}] :
              \A key \in keys : ns[key] \in BodyValues(cls, key)} :
             keys \in SUBSET UserKeys}

\* class name(*bases, interface_name=..., serving_enabled=...): namespace
ClassStatement(name, bases, namespace, interface_name, serving_enabled) ==
    LET made == DbusInterfaceMeta__new__(Table, name, bases, namespace, interface_name, serving_enabled)
        statement == [type |-> "ClassStatement", name |-> name, bases |-> bases,
                      namespace |-> namespace, interface_name |-> interface_name,
                      serving_enabled |-> serving_enabled]
    IN  \/ /\ made.raised = {}
           /\ classes' = (name :> made.cls) @@ classes
           /\ last' = [statement |-> statement, exc |-> "ok"]
        \/ \E exc \in made.raised :
              /\ classes' = classes
              /\ last' = [statement |-> statement, exc |-> exc]

\* The next class statement of the module being loaded.  An exception of a
\* class statement ends the load: the classes are as they were before it.
DefineClass ==
    /\ Cardinality(DOMAIN classes) < MaxUserClasses
    /\ last.exc = "ok"
    /\ LET name == UserClassNames[Cardinality(DOMAIN classes) + 1]
       IN  \E namespace \in Namespaces(name), base \in DOMAIN Table, options \in ClassOptions :
             ClassStatement(name, <<base>>, namespace, options.interface_name, options.serving_enabled)
    /\ UNCHANGED instanceVars

\* No operation yet
Idle ==
    [type |-> "idle", obj |-> "", key |-> "", args |-> <<>>, kwargs |-> <<>>,
     pc |-> "done", coro |-> None, reply |-> <<>>, exc |-> "ok", value |-> None]

NoInstances ==
    /\ DEFAULT_BUS = None
    /\ opened = <<>>
    /\ objects = <<>>
    /\ op = Idle
    /\ sent = <<>>
    /\ invoked = <<>>
    /\ registered = <<>>
    /\ subscribers = <<>>

InitMeta ==
    /\ classes = <<>>
    /\ last = [statement |-> None, exc |-> "ok"]
    /\ NoInstances

NextMeta == DefineClass

SpecMeta == InitMeta /\ [][NextMeta]_vars

-----------------------------------------------------------------------------
(* Attribute lookup through the class hierarchy *)

\* The classes c derives from, c excluded
RECURSIVE Ancestors(_, _)
Ancestors(table, c) ==
    UNION {{table[c].bases[i]} \cup Ancestors(table, table[c].bases[i]) :
             i \in DOMAIN table[c].bases}

\* Depth first, left to right, over the bases from the i-th on
RECURSIVE Linearise(_, _)
RECURSIVE LineariseBases(_, _, _)
LineariseBases(table, bases, i) ==
    IF i > Len(bases) THEN <<>>
    ELSE Linearise(table, bases[i]) \o LineariseBases(table, bases, i + 1)

Linearise(table, c) == <<c>> \o LineariseBases(table, table[c].bases, 1)

\* Every class of the walk once, at its last place
LastPlaces(walk) ==
    SelectSeq([i \in DOMAIN walk |->
                 IF \E j \in DOMAIN walk : j > i /\ walk[j] = walk[i] THEN "" ELSE walk[i]],
              LAMBDA n : n # "")

\* The method resolution order of the hierarchies built here
mro(table, c) == LastPlaces(Linearise(table, c))

\* The first class of the order whose own dictionary has the key
Holder(table, order, key) ==
    order[CHOOSE i \in DOMAIN order :
              /\ key \in DOMAIN table[order[i]].dict
              /\ \A j \in 1 .. i - 1 : key \notin DOMAIN table[order[j]].dict]

\* The value a name resolves to along the order, None when no class has it
LookUp(table, order, key) ==
    IF \A i \in DOMAIN order : key \notin DOMAIN table[order[i]].dict
    THEN None
    ELSE table[Holder(table, order, key)].dict[key]

\* The value an attribute name resolves to on class c, None when it has none
getattr_static(table, c, key) == LookUp(table, mro(table, c), key)

-----------------------------------------------------------------------------
(* An interface class with members of every shape, as an application       *)
(* declares one (the Method of spec section 8 among them)                  *)

Name_method_abcd == Str(<<"m", "e", "t", "h", "o", "d", "_", "a", "b", "c", "d">>)

Name_method_opt == Str(<<"m", "e", "t", "h", "o", "d", "_", "o", "p", "t">>)

Name_prop_ro == Str(<<"p", "r", "o", "p", "_", "r", "o">>)

Name_prop_rw == Str(<<"p", "r", "o", "p", "_", "r", "w">>)

\* async def method_abcd(self, a, b, c=1, d=2)
Name_signal_a == Str(<<"S", "i", "g", "A">>)

Fn_method_abcd ==
    Function(<<"ExampleInterface", "method_abcd">>, Name_method_abcd,
             <<"self", "a", "b", "c", "d">>, PyTuple(<<PyInt(1), PyInt(2)>>))

\* async def method_opt(self, a, b=None)
Fn_method_opt ==
    Function(<<"ExampleInterface", "method_opt">>, Name_method_opt,
             <<"self", "a", "b">>, PyTuple(<<None>>))

\* def prop_rw_setter(self, value), given to prop_rw.setter
Fn_prop_rw_setter ==
    Function(<<"ExampleInterface", "prop_rw_setter">>, Str(<<>>), <<"self", "value">>, None)

ExampleNamespace ==
    [key \in {"method_abcd", "method_opt", "prop_ro", "prop_rw", "prop_rw_setter",
               "signal_a"} |->
        CASE key = "method_abcd" ->
               dbus_method(None, Str(<<"i", "i", "i", "i">>), Str(<<"s">>), <<>>, 0, Fn_method_abcd)
          [] key = "method_opt" ->
               dbus_method(None, Str(<<"i", "i">>), Str(<<>>), <<>>, 0, Fn_method_opt)
          [] key = "prop_ro" ->
               dbus_property(Str(<<"s">>), None, 0, Def("ExampleInterface", key, Name_prop_ro))
          [] key = "prop_rw" ->
               setter(dbus_property(Str(<<"s">>), None, 0, Def("ExampleInterface", key, Name_prop_rw)),
                      Fn_prop_rw_setter)
          [] key = "prop_rw_setter" -> None
          [] key = "signal_a" -> DbusSignal(Name_signal_a, Str(<<"i", "i">>), <<>>, 0)]

ExampleInterface ==
    Built(LoadedClasses, "ExampleInterface", <<"DbusInterfaceCommon">>, ExampleNamespace,
          GoodInterfaceName, TRUE)

Name_child_method == Str(<<"c", "h", "i", "l", "d", "_", "m", "e", "t", "h", "o", "d">>)

Name_tail_prop == Str(<<"t", "a", "i", "l", "_", "p", "r", "o", "p">>)

ChildInterfaceName == Str(<<"o", "r", "g", ".", "c", "h">>)

\* A class derived from the example class under an interface name of its own
ChildNamespace ==
    [key \in {"child_method", "tail_prop"} |->
        CASE key = "child_method" ->
               dbus_method(None, Str(<<>>), Str(<<"s">>), <<>>, 0,
                           Def("ChildInterface", key, Name_child_method))
          [] key = "tail_prop" ->
               dbus_property(Str(<<"s">>), None, 0, Def("ChildInterface", key, Name_tail_prop))]

ChildInterface ==
    Built(("ExampleInterface" :> ExampleInterface) @@ LoadedClasses, "ChildInterface",
          <<"ExampleInterface">>, ChildNamespace, ChildInterfaceName, TRUE)

ExampleClasses ==
    [c \in {"ExampleInterface", "ChildInterface"} |->
        IF c = "ExampleInterface" THEN ExampleInterface ELSE ChildInterface]

Name_signal_b == Str(<<"S", "i", "g", "B">>)

SignalsInterfaceName == Str(<<"o", "r", "g", ".", "s", "g">>)

\* A class whose only member is a signal
SignalsNamespace ==
    [key \in {"signal_b"} |-> DbusSignal(Name_signal_b, Str(<<"i">>), <<>>, 0)]

SignalsInterface ==
    Built(LoadedClasses, "SignalsInterface", <<"DbusInterfaceCommon">>, SignalsNamespace,
          SignalsInterfaceName, TRUE)

Name_nameless_method ==
    Str(<<"n", "a", "m", "e", "l", "e", "s", "s", "_", "m", "e", "t", "h", "o", "d">>)

\* A class statement without the interface_name keyword
NamelessNamespace ==
    [key \in {"nameless_method"} |->
        dbus_method(None, Str(<<>>), Str(<<>>), <<>>, 0,
                    Def("NamelessInterface", key, Name_nameless_method))]

NamelessInterface ==
    Built(LoadedClasses, "NamelessInterface", <<"DbusInterfaceCommon">>, NamelessNamespace,
          None, TRUE)

\* The example class with the two classes above
MemberClasses ==
    [c \in {"ExampleInterface", "SignalsInterface", "NamelessInterface"} |->
        CASE c = "ExampleInterface" -> ExampleInterface
          [] c = "SignalsInterface" -> SignalsInterface
          [] c = "NamelessInterface" -> NamelessInterface]

\* Every attribute name of the classes above, in the order sorted() gives
SortedNames ==
    <<"__init__", "_connect", "child_method", "get_machine_id", "introspect", "method_abcd", "method_opt",
      "nameless_method", "new_connect", "ping", "prop_ro", "prop_rw", "prop_rw_setter",
      "signal_a", "signal_b", "start_serving", "tail_prop",
      "test_method", "test_property">>

-----------------------------------------------------------------------------
(* The bus engine *)

SdBus(id) == [type |-> "SdBus", id |-> id]

Buses == {SdBus("default")}

ServiceNames == {Str(<<"o", "r", "g", ".", "r">>)}

RemotePaths == {Str(<<"/", "r">>), Str(<<"/", "q">>)}

ServingPaths == {Str(<<"/", "s">>)}

\* bus.new_method_call_message, new_property_get_message, new_property_set_message
NewMessage(kind, bus, destination, path, interface, member) ==
    [type |-> "SdBusMessage", kind |-> kind, bus |-> bus, destination |-> destination,
     path |-> path, interface |-> interface, member |-> member, data |-> <<>>]

\* message.append_data(signature, *values)
append_data(message, signature, values) ==
    [message EXCEPT !.data = Append(@, [signature |-> signature, values |-> values])]

\* What reply_message.get_contents() can give
ReplyContents == {None, PyInt(7), PyTuple(<<PyInt(7), PyInt(8)>>)}

-----------------------------------------------------------------------------
(* DbusInterfaceBase: the state of an instance *)

\* DbusInterfaceBase.__init__
DbusInterfaceBase__init__ ==
    [activated_interfaces |-> <<>>,
     is_binded |-> FALSE,
     remote_service_name |-> None,
     remote_object_path |-> None,
     attached_bus |-> None,
     serving_object_path |-> None,
     _local_signal_queues |-> <<>>]

\* DbusInterfaceBase._connect on an instance with attributes attrs
_connect(attrs, bus, service_name, object_path) ==
    [is_binded |-> TRUE,
     attached_bus |-> bus,
     remote_service_name |-> service_name,
     remote_object_path |-> object_path] @@ attrs

\* DbusInterfaceBase.new_connect: cls.__new__(cls) runs no __init__
new_connect(bus, service_name, object_path) ==
    _connect(<<>>, bus, service_name, object_path)

\* The descriptor that attribute key of the instance's class resolves to
Descriptor(obj, key) == getattr_static(Table, objects[obj].cls, key)

\* The names of the classes of the order that resolve to the type
NamesOfType(table, order, type) ==
    {key \in UNION {DOMAIN table[order[i]].dict : i \in DOMAIN order} :
        LookUp(table, order, key).type = type}

\* The attribute names of class c that resolve to a descriptor of the type
MembersOfType(c, type) == NamesOfType(Table, mro(Table, c), type)

-----------------------------------------------------------------------------
(* Calling a plain function *)

\* The result of a function: a value, or the exception it raised
Return(value) == [exc |-> "ok", value |-> value]

Raise(exc) == [exc |-> exc, value |-> None]

\* A coroutine object that has not run yet
Coroutine(fn, args) == [type |-> "coroutine", fn |-> fn, args |-> args]

\* What a local function gives back when it is called
LocalResult(function) == [type |-> "result", of |-> function.qualname]

\* The functions of DbusPeerInterface and DbusIntrospectable: the body of
\* each is "raise NotImplementedError"
NotImplementedBodies ==
    {<<"DbusPeerInterface", "ping">>, <<"DbusPeerInterface", "get_machine_id">>,
     <<"DbusIntrospectable", "introspect">>}

\* The body of a local async function, run to its end
LocalBody(function) ==
    IF function.qualname \in NotImplementedBodies
    THEN Raise("NotImplementedError")
    ELSE Return(LocalResult(function))

\* A call of a local function
Invocation(function, self, args, kwargs) ==
    [function |-> function, self |-> self, args |-> args, kwargs |-> kwargs]

\* Python's binding of a call's arguments to the parameters after self:
\* TRUE when the call is accepted
Binds(function, args, kwargs) ==
    LET names    == Tail(function.args)
        defaults == IF function.defaults # None THEN Len(function.defaults.items) ELSE 0
    IN  /\ Len(args) <= Len(names)
        /\ \A k \in DOMAIN kwargs : \E i \in Len(args) + 1 .. Len(names) : names[i] = k
        /\ \A i \in Len(args) + 1 .. Len(names) - defaults : names[i] \in DOMAIN kwargs

\* A call that hands the function the positional arguments only
CallLocal_NoKwargs(function, obj, args, kwargs) ==
    [result  |-> Return(Coroutine("original_method", args)),
     invoked |-> <<Invocation(function, obj, args, <<>>)>>]

\* function(self, *args, **kwargs) for an async def: a coroutine of its
\* body, or the TypeError of a call that does not bind
CallLocal(function, obj, args, kwargs) ==
    [result  |-> IF Binds(function, args, kwargs)
                 THEN Return(Coroutine("original_method", args))
                 ELSE Raise("TypeError"),
     invoked |-> <<Invocation(function, obj, args, kwargs)>>]

-----------------------------------------------------------------------------
(* DbusMethodBinded *)

\* One pass of the loop of _rebuild_args, for the parameter at index i
\* (from 0): the list entry, or Raise("TypeError")
RebuildSlot(method, i, args, kwargs) ==
    LET a_name           == method.args_spec.args[i + 2]
        next_arg         == IF i < Len(args) THEN args[i + 1] ELSE None
        next_default_arg == IF i >= method.default_args_start_at
                            THEN method.args_defaults[i - method.default_args_start_at + 1]
                            ELSE None
        next_kwarg       == IF a_name \in DOMAIN kwargs THEN kwargs[a_name] ELSE None
    IN  IF next_arg # None THEN Return(next_arg)
        ELSE IF next_kwarg # None THEN Return(next_kwarg)
        ELSE IF next_default_arg # None THEN Return(next_default_arg)
        ELSE Raise("TypeError")

\* The loop of _rebuild_args has run over every slot, or one slot raised
Rebuilt(slots) ==
    IF \E i \in DOMAIN slots : slots[i].exc # "ok"
    THEN Raise("TypeError")
    ELSE Return([i \in DOMAIN slots |-> slots[i].value])

\* DbusMethodBinded._rebuild_args: the new list, or the exception
_rebuild_args(method, args, kwargs) ==
    Rebuilt([i \in 1 .. Len(method.args_spec.args) - 1 |->
                RebuildSlot(method, i - 1, args, kwargs)])

\* A call whose argument error would only surface when it is awaited
CallDbus_Deferred(rebuilt_args) ==
    [result |-> Return(Coroutine("_call_dbus", <<>>)), invoked |-> <<>>]

\* return self._call_dbus(*rebuilt_args), when _rebuild_args did not raise
CallDbus(rebuilt_args) ==
    IF rebuilt_args.exc # "ok"
    THEN [result |-> rebuilt_args, invoked |-> <<>>]
    ELSE [result |-> Return(Coroutine("_call_dbus", rebuilt_args.value)), invoked |-> <<>>]

\* DbusMethodBinded.__call__ on instance obj with attributes attrs: what it
\* returns or raises, and the local calls it made
DbusMethodBinded__call__(method, obj, attrs, args, kwargs) ==
    IF attrs.is_binded
    THEN IF Len(args) = method.num_of_args
         THEN IF DOMAIN kwargs # {}
              THEN [result |-> Raise("AssertionError"), invoked |-> <<>>]
              ELSE [result |-> Return(Coroutine("_call_dbus", args)), invoked |-> <<>>]
         ELSE CallDbus(_rebuild_args(method, args, kwargs))
    ELSE CallLocal(method.original_method, obj, args, kwargs)

\* A request with the peer and the object path in each other's place
new_method_call_message_Swapped(attrs, method) ==
    NewMessage("method_call", attrs.attached_bus, attrs.remote_object_path,
               attrs.remote_service_name, method.interface_name, method.method_name)

\* bus.new_method_call_message for the instance's peer and the method
new_method_call_message(attrs, method) ==
    NewMessage("method_call", attrs.attached_bus, attrs.remote_service_name,
               attrs.remote_object_path, method.interface_name, method.method_name)

\* A _call_dbus that appends the arguments even when there are none
_call_dbus_Appending(method, attrs, args) ==
    IF \/ attrs.attached_bus = None
       \/ attrs.remote_service_name = None
       \/ attrs.remote_object_path = None
       \/ method.interface_name = None
    THEN Raise("AssertionError")
    ELSE Return(append_data(new_method_call_message(attrs, method), method.input_signature, args))

\* DbusMethodBinded._call_dbus up to its await: the exception of a failed
\* assertion, or the request handed to call_async
_call_dbus(method, attrs, args) ==
    IF \/ attrs.attached_bus = None
       \/ attrs.remote_service_name = None
       \/ attrs.remote_object_path = None
       \/ method.interface_name = None
    THEN Raise("AssertionError")
    ELSE Return(IF args # <<>>
                THEN append_data(new_method_call_message(attrs, method), method.input_signature, args)
                ELSE new_method_call_message(attrs, method))

\* DbusMethodBinded._call_dbus after its await
_call_dbus_return(reply_contents) == Return(reply_contents)

-----------------------------------------------------------------------------
(* DbusPropertyBinded *)

\* A synchronous get that asks nothing of the getter
get_sync_Unasked(property, obj) ==
    [result |-> Return(None), invoked |-> <<>>]

\* DbusPropertyBinded.get_sync
get_sync(property, obj) ==
    [result |-> Return(LocalResult(property.property_get)),
     invoked |-> <<Invocation(property.property_get, obj, <<>>, <<>>)>>]

\* bus.new_property_get_message / new_property_set_message for the
\* instance's peer and the property
new_property_message(kind, attrs, property) ==
    NewMessage(kind, attrs.attached_bus, attrs.remote_service_name,
               attrs.remote_object_path, property.interface_name, property.property_name)

\* An asynchronous get that always asks the local getter
get_async_Local(property, obj, attrs) ==
    [result |-> Return(LocalResult(property.property_get)),
     invoked |-> <<Invocation(property.property_get, obj, <<>>, <<>>)>>,
     request |-> None]

\* DbusPropertyBinded.get_async up to its await or its end
get_async(property, obj, attrs) ==
    IF ~attrs.is_binded
    THEN [result |-> Return(LocalResult(property.property_get)),
          invoked |-> <<Invocation(property.property_get, obj, <<>>, <<>>)>>,
          request |-> None]
    ELSE IF \/ attrs.attached_bus = None
            \/ attrs.remote_service_name = None
            \/ attrs.remote_object_path = None
            \/ property.property_name = None
            \/ property.interface_name = None
         THEN [result |-> Raise("AssertionError"), invoked |-> <<>>, request |-> None]
         ELSE [result |-> Return(None), invoked |-> <<>>,
               request |-> new_property_message("property_get", attrs, property)]

\* contents[index] as Python evaluates it, index from 0
Subscript(contents, index) ==
    IF contents.type # "tuple" THEN Raise("TypeError")
    ELSE IF index >= Len(contents.items) THEN Raise("IndexError")
    ELSE Return(contents.items[index + 1])

\* DbusPropertyBinded.get_async after its await
get_async_return(reply_contents) == Subscript(reply_contents, 1)

\* A synchronous set that does nothing when there is no setter
set_sync_Silent(property, obj, complete_object) ==
    [result |-> Return(None), invoked |-> <<>>]

\* DbusPropertyBinded.set_sync
set_sync(property, obj, complete_object) ==
    IF property.property_set = None
    THEN [result |-> Raise("ValueError"), invoked |-> <<>>]
    ELSE [result |-> Return(None),
          invoked |-> <<Invocation(property.property_set, obj, <<complete_object>>, <<>>)>>]

\* DbusPropertyBinded.set_async up to its await or its end: the result when
\* it ends there, the local calls made, the request handed to call_async
set_async(property, obj, attrs, complete_object) ==
    IF ~attrs.is_binded
    THEN IF property.property_set = None
         THEN [result |-> Raise("ValueError"), invoked |-> <<>>, request |-> None]
         ELSE [result |-> Return(None),
               invoked |-> <<Invocation(property.property_set, obj, <<complete_object>>, <<>>)>>,
               request |-> None]
    ELSE IF \/ attrs.attached_bus = None
            \/ attrs.remote_service_name = None
            \/ attrs.remote_object_path = None
            \/ property.property_name = None
            \/ property.interface_name = None
         THEN [result |-> Raise("AssertionError"), invoked |-> <<>>, request |-> None]
         ELSE [result |-> Return(None), invoked |-> <<>>,
               request |->
                   append_data(NewMessage("property_set", attrs.attached_bus,
                                          attrs.remote_service_name, attrs.remote_object_path,
                                          property.interface_name,
                                          property.property_name),
                               Str(<<"v">>),
                               <<PyTuple(<<property.property_signature, complete_object>>)>>)]

-----------------------------------------------------------------------------
(* DbusInterfaceBase.start_serving *)

\* The names of the sorted list that are in the set
SortedIn(names) == SelectSeq(SortedNames, LAMBDA key : key \in names)

\* dir() of an instance of class c, sorted as getmembers sorts it; the
\* instance's own attributes are no descriptors and are passed over
ClassMembers(table, order) == SortedIn(UNION {DOMAIN table[order[i]].dict : i \in DOMAIN order})

\* A first loop that passes over no member for its serving_enabled
Served_Everything(values) ==
    SelectSeq(values, LAMBDA value : value.type \in {"DbusMethod", "DbusProperty"})

\* The values the first loop of start_serving does not pass over: bound
\* methods and properties with serving enabled; anything else, a bound
\* signal included, meets the loop's last continue
Served(values) ==
    SelectSeq(values, LAMBDA value : /\ value.type \in {"DbusMethod", "DbusProperty"}
                                     /\ value.serving_enabled)

\* The members start_serving collects, in the order of getmembers
MemberValues(table, order, members) ==
    Served([i \in DOMAIN members |-> LookUp(table, order, members[i])])

ServedMembers(table, order) == MemberValues(table, order, ClassMembers(table, order))

\* The places in the list where an interface name comes first
Firsts(served) ==
    SelectSeq([i \in DOMAIN served |-> i],
              LAMBDA i : \A j \in 1 .. i - 1 :
                            served[j].interface_name # served[i].interface_name)

\* interface_map as its items(), in insertion order
InterfaceMap(served, firsts) ==
    [n \in DOMAIN firsts |->
        [interface_name |-> served[firsts[n]].interface_name,
         member_list |-> SelectSeq(served, LAMBDA value : value.interface_name =
                                                          served[firsts[n]].interface_name)]]

\* The first loop of start_serving: interface_map, or the AssertionError
\* of a collected member without interface name
CollectMembers(served) ==
    IF \E i \in DOMAIN served : served[i].interface_name = None
    THEN Raise("AssertionError")
    ELSE Return(InterfaceMap(served, Firsts(served)))

\* new_interface.add_method, add_property or add_signal for one member
AddMember(value) ==
    IF value.type = "DbusMethod"
    THEN [add |-> "add_method", name |-> value.method_name,
          signature |-> value.input_signature, input_args_names |-> value.input_args_names,
          result_signature |-> value.result_signature,
          result_args_names |-> value.result_args_names, flags |-> value.flags,
          setter |-> FALSE]
    ELSE IF value.type = "DbusSignal"
    THEN [add |-> "add_signal", name |-> value.signal_name,
          signature |-> value.signature, input_args_names |-> value.args_names,
          result_signature |-> Str(<<>>), result_args_names |-> <<>>, flags |-> value.flags,
          setter |-> FALSE]
    ELSE [add |-> "add_property", name |-> value.property_name,
          signature |-> value.property_signature, input_args_names |-> Str(<<>>),
          result_signature |-> Str(<<>>), result_args_names |-> <<>>, flags |-> value.flags,
          setter |-> value.property_set # None]

\* The SdBusInterface built from one entry of interface_map
SdBusInterface(entry) ==
    [type |-> "SdBusInterface",
     members |-> [i \in DOMAIN entry.member_list |-> AddMember(entry.member_list[i])]]

\* bus.add_interface(new_interface, object_path, interface_name)
add_interface(bus, new_interface, object_path, interface_name) ==
    [bus |-> bus, interface |-> new_interface, object_path |-> object_path,
     interface_name |-> interface_name]

\* The handles the second loop of start_serving makes
NewInterfaces(interface_map) ==
    [i \in DOMAIN interface_map |-> SdBusInterface(interface_map[i])]

\* A second loop that starts the list of activated interfaces anew
AddInterfaces_Replacing(attrs, reg, bus, object_path, interface_map, interfaces) ==
    IF interface_map = <<>>
    THEN [attrs |-> attrs, registered |-> reg, exc |-> "ok"]
    ELSE IF "activated_interfaces" \notin DOMAIN attrs
    THEN [attrs |-> attrs,
          registered |-> Append(reg, add_interface(bus, interfaces[1], object_path,
                                                   interface_map[1].interface_name)),
          exc |-> "AttributeError"]
    ELSE [attrs |-> [attrs EXCEPT !.activated_interfaces = interfaces],
          registered |-> reg \o [i \in DOMAIN interface_map |->
                                    add_interface(bus, interfaces[i], object_path,
                                                  interface_map[i].interface_name)],
          exc |-> "ok"]

\* The second loop of start_serving: the instance's attributes, the
\* engine's registrations, the exception (an instance without the list of
\* activated interfaces fails at the first append, after add_interface)
AddInterfaces(attrs, reg, bus, object_path, interface_map, interfaces) ==
    IF interface_map = <<>>
    THEN [attrs |-> attrs, registered |-> reg, exc |-> "ok"]
    ELSE IF "activated_interfaces" \notin DOMAIN attrs
    THEN [attrs |-> attrs,
          registered |-> Append(reg, add_interface(bus, interfaces[1], object_path,
                                                   interface_map[1].interface_name)),
          exc |-> "AttributeError"]
    ELSE [attrs |-> [attrs EXCEPT !.activated_interfaces = @ \o interfaces],
          registered |-> reg \o [i \in DOMAIN interface_map |->
                                    add_interface(bus, interfaces[i], object_path,
                                                  interface_map[i].interface_name)],
          exc |-> "ok"]

\* self.attached_bus = bus; self.serving_object_path = object_path
SetServing(attrs, bus, object_path) ==
    [name \in DOMAIN attrs \cup {"attached_bus", "serving_object_path"} |->
        CASE name = "attached_bus" -> bus
          [] name = "serving_object_path" -> object_path
          [] OTHER -> attrs[name]]

\* start_serving after its first loop
Serve(attrs, reg, bus, object_path, interface_map) ==
    IF interface_map.exc # "ok"
    THEN [attrs |-> attrs, registered |-> reg, exc |-> interface_map.exc]
    ELSE AddInterfaces(attrs, reg, bus, object_path, interface_map.value,
                       NewInterfaces(interface_map.value))

\* DbusInterfaceBase.start_serving, run to its end, on an instance of c
start_serving(c, attrs, reg, bus, object_path) ==
    Serve(SetServing(attrs, bus, object_path), reg, bus, object_path,
          CollectMembers(ServedMembers(Table, mro(Table, c))))

-----------------------------------------------------------------------------
(* Operations on instances *)

MaxArgs == 4

MaxKwargs == 1

MaxRegistered == 1

\* The instances the application makes
Instances == {"x"}

InstanceClasses == {"ExampleInterface"}

\* The positional arguments a caller passes: position i holds None or 10 * i
ArgsOfLen(n) == [1 .. n -> {0, 1}]

PositionalArgs ==
    UNION {{[i \in 1 .. n |-> IF choice[i] = 0 THEN None ELSE PyInt(10 * i)] :
               choice \in ArgsOfLen(n)} : n \in 0 .. MaxArgs}

KwargNames == {"a", "b", "c", "d"}

\* The keyword arguments a caller passes
KeywordArgs ==
    UNION {[names -> {None, PyInt(99)}] :
              names \in {s \in SUBSET KwargNames : Cardinality(s) <= MaxKwargs}}

PropertyValues == {None, Str(<<"v">>)}

\* The record of the operation in progress, or of the last one
Operation(type, obj, key, args, kwargs, pc, result) ==
    [type |-> type, obj |-> obj, key |-> key, args |-> args, kwargs |-> kwargs,
     pc |-> pc, coro |-> IF pc = "coroutine" THEN result.value ELSE None, reply |-> <<>>,
     exc |-> result.exc, value |-> IF pc = "done" THEN result.value ELSE None]

\* After a call returned: a coroutine to await, or a finished operation
PcAfter(result) ==
    IF result.exc = "ok" /\ result.value.type = "coroutine" THEN "coroutine" ELSE "done"

\* Assignments to attributes of self: the attributes live on the instance
SetAttributes_OnClass(objs, obj, attrs) ==
    [other \in DOMAIN objs |->
        IF objs[other].cls = objs[obj].cls THEN [objs[other] EXCEPT !.attrs = attrs]
        ELSE objs[other]]

SetAttributes(objs, obj, attrs) == [objs EXCEPT ![obj].attrs = attrs]

\* obj = cls() for an instance of the given ones and a class of the given ones
ConstructIn(instances, instance_classes) ==
    \E obj \in instances \ DOMAIN objects, cls \in instance_classes :
        /\ objects' = (obj :> [cls |-> cls, attrs |-> DbusInterfaceBase__init__]) @@ objects
        /\ UNCHANGED <<DEFAULT_BUS, opened, classes, last, subscribers, op, sent, invoked, registered>>

\* obj = cls()
Construct == ConstructIn(Instances, InstanceClasses)

\* obj = cls.new_connect(bus, service_name, object_path) for an instance of
\* the given ones and a bus of the given ones
NewConnectWith(instances, buses) ==
    \E obj \in instances \ DOMAIN objects, cls \in InstanceClasses :
    \E bus \in buses, service_name \in ServiceNames, object_path \in RemotePaths :
        /\ objects' = (obj :> [cls |-> cls,
                               attrs |-> new_connect(bus, service_name, object_path)]) @@ objects
        /\ UNCHANGED <<DEFAULT_BUS, opened, classes, last, subscribers, op, sent, invoked, registered>>

\* obj = cls.new_connect(bus, service_name, object_path) for an instance of
\* the given ones
NewConnectIn(instances) == NewConnectWith(instances, Buses)

\* obj = cls.new_connect(bus, service_name, object_path)
NewConnect == NewConnectIn(Instances)

\* obj._connect(bus, service_name, object_path) with a bus of the given ones
ConnectWith(buses) ==
    \E obj \in DOMAIN objects :
    \E bus \in buses, service_name \in ServiceNames, object_path \in RemotePaths :
        /\ objects' = SetAttributes(objects, obj,
                                    _connect(objects[obj].attrs, bus, service_name, object_path))
        /\ UNCHANGED <<DEFAULT_BUS, opened, classes, last, subscribers, op, sent, invoked, registered>>

\* obj._connect(bus, service_name, object_path)
Connect == ConnectWith(Buses)

\* await obj.start_serving(bus, object_path) with a bus of the given ones,
\* while the engine holds fewer registrations than the cap
StartServingUpTo(buses, cap) ==
    /\ op = Idle
    /\ Len(registered) < cap
    /\ \E obj \in DOMAIN objects, bus \in buses, object_path \in ServingPaths :
        \E done \in {start_serving(objects[obj].cls, objects[obj].attrs, registered, bus, object_path)} :
                /\ objects' = SetAttributes(objects, obj, done.attrs)
                /\ registered' = done.registered
                /\ op' = Operation("start_serving", obj, "start_serving", <<object_path>>, <<>>,
                                   "done", [exc |-> done.exc, value |-> None])
                /\ sent' = <<>>
                /\ invoked' = <<>>
                /\ UNCHANGED <<DEFAULT_BUS, opened, classes, last, subscribers>>

\* await obj.start_serving(bus, object_path) with a bus of the given ones
StartServingWith(buses) == StartServingUpTo(buses, MaxRegistered)

\* await obj.start_serving(bus, object_path)
StartServing == StartServingWith(Buses)

\* obj.key(*args, **kwargs) for a method member: DbusMethodBinded.__call__
CallMethod ==
    /\ op = Idle
    /\ \E obj \in DOMAIN objects, args \in PositionalArgs, kwargs \in KeywordArgs :
        \E key \in MembersOfType(objects[obj].cls, "DbusMethod") :
        \E called \in {DbusMethodBinded__call__(Descriptor(obj, key), obj, objects[obj].attrs,
                                                args, kwargs)} :
                /\ op' = Operation("call", obj, key, args, kwargs, PcAfter(called.result),
                                   called.result)
                /\ sent' = <<>>
                /\ invoked' = called.invoked
                /\ UNCHANGED <<DEFAULT_BUS, opened, classes, last, subscribers, objects, registered>>

\* obj.key.set_sync(value) for a property member
SetSync ==
    /\ op = Idle
    /\ \E obj \in DOMAIN objects, complete_object \in PropertyValues :
        \E key \in MembersOfType(objects[obj].cls, "DbusProperty") :
        \E called \in {set_sync(Descriptor(obj, key), obj, complete_object)} :
                /\ op' = Operation("set_sync", obj, key, <<complete_object>>, <<>>, "done",
                                   called.result)
                /\ sent' = <<>>
                /\ invoked' = called.invoked
                /\ UNCHANGED <<DEFAULT_BUS, opened, classes, last, subscribers, objects, registered>>

\* obj.key.get_sync() for a property member
GetSync ==
    /\ op = Idle
    /\ \E obj \in DOMAIN objects :
        \E key \in MembersOfType(objects[obj].cls, "DbusProperty") :
        \E called \in {get_sync(Descriptor(obj, key), obj)} :
                /\ op' = Operation("get_sync", obj, key, <<>>, <<>>, "done", called.result)
                /\ sent' = <<>>
                /\ invoked' = called.invoked
                /\ UNCHANGED <<DEFAULT_BUS, opened, classes, last, subscribers, objects, registered>>

\* obj.key.get_async() for a property member: a coroutine, not yet run
GetAsync ==
    /\ op = Idle
    /\ \E obj \in DOMAIN objects :
        \E key \in MembersOfType(objects[obj].cls, "DbusProperty") :
            /\ op' = Operation("get_async", obj, key, <<>>, <<>>, "coroutine",
                               Return(Coroutine("get_async", <<>>)))
            /\ sent' = <<>>
            /\ invoked' = <<>>
            /\ UNCHANGED <<DEFAULT_BUS, opened, classes, last, subscribers, objects, registered>>

\* obj.key.set_async(value) for a property member: a coroutine, not yet run
SetAsync ==
    /\ op = Idle
    /\ \E obj \in DOMAIN objects, complete_object \in PropertyValues :
        \E key \in MembersOfType(objects[obj].cls, "DbusProperty") :
            /\ op' = Operation("set_async", obj, key, <<complete_object>>, <<>>, "coroutine",
                               Return(Coroutine("set_async", <<complete_object>>)))
            /\ sent' = <<>>
            /\ invoked' = <<>>
            /\ UNCHANGED <<DEFAULT_BUS, opened, classes, last, subscribers, objects, registered>>

\* The coroutine runs to its first await or to its end
Ran(result, request, calls) ==
    /\ op' = [op EXCEPT !.pc = IF request = None THEN "done" ELSE "awaiting",
                        !.coro = None,
                        !.exc = result.exc,
                        !.value = result.value]
    /\ sent' = IF request = None THEN sent ELSE Append(sent, request)
    /\ invoked' = invoked \o calls
    /\ UNCHANGED <<DEFAULT_BUS, opened, classes, last, subscribers, objects, registered>>

\* The body of _call_dbus up to its await, from the request it built
RunCallDbus(request) ==
    IF request.exc # "ok"
    THEN [result |-> request, invoked |-> <<>>, request |-> None]
    ELSE [result |-> Return(None), invoked |-> <<>>, request |-> request.value]

\* The body of the coroutine of member value of obj, up to its await or end
RunCoroutine(value, obj, attrs, coro) ==
    CASE coro.fn = "_call_dbus" -> RunCallDbus(_call_dbus(value, attrs, coro.args))
      [] coro.fn = "set_async" -> set_async(value, obj, attrs, coro.args[1])
      [] coro.fn = "get_async" -> get_async(value, obj, attrs)
      [] OTHER -> [result |-> LocalBody(value.original_method),
                   invoked |-> <<>>, request |-> None]

\* await of the coroutine a call returned
AwaitCoroutine ==
    /\ op.pc = "coroutine"
    /\ \E ran \in {RunCoroutine(Descriptor(op.obj, op.key), op.obj, objects[op.obj].attrs, op.coro)} :
           Ran(ran.result, ran.request, ran.invoked)

\* What the coroutine of the operation returns once it has the reply
AfterReply(type, contents) ==
    CASE type = "call" -> _call_dbus_return(contents)
      [] type = "get_async" -> get_async_return(contents)
      [] OTHER -> Return(None)

\* call_async gives the reply message back
Reply ==
    /\ op.pc = "awaiting"
    /\ \E contents \in ReplyContents :
        \E returned \in {AfterReply(op.type, contents)} :
            /\ op' = [op EXCEPT !.pc = "done",
                                !.reply = <<contents>>,
                                !.exc = returned.exc,
                                !.value = returned.value]
            /\ UNCHANGED <<DEFAULT_BUS, opened, classes, last, subscribers, objects, sent, invoked, registered>>

\* call_async raises
CallAsyncFails ==
    /\ op.pc = "awaiting"
    /\ op' = [op EXCEPT !.pc = "done", !.exc = "SdBusError"]
    /\ UNCHANGED <<DEFAULT_BUS, opened, classes, last, subscribers, objects, sent, invoked, registered>>

\* The caller lets go of the result of the finished operation
Discard ==
    /\ op.pc = "done"
    /\ op # Idle
    /\ op' = Idle
    /\ sent' = <<>>
    /\ invoked' = <<>>
    /\ UNCHANGED <<DEFAULT_BUS, opened, classes, last, subscribers, objects, registered>>

InitInstances ==
    /\ classes = ExampleClasses
    /\ last = [statement |-> None, exc |-> "ok"]
    /\ NoInstances

NextInstances ==
    \/ Construct
    \/ NewConnect
    \/ Connect
    \/ StartServing
    \/ CallMethod
    \/ SetSync
    \/ SetAsync
    \/ GetSync
    \/ GetAsync
    \/ AwaitCoroutine
    \/ Reply
    \/ CallAsyncFails
    \/ Discard

SpecInstances == InitInstances /\ [][NextInstances]_vars

-----------------------------------------------------------------------------
(* DbusSignalBinded *)

MaxSubscribers == 2

MaxQueued == 1

\* The values the application emits
SignalValues == {PyInt(7), PyTuple(<<PyInt(7), PyInt(8)>>)}

\* weak_ref(new_queue, self._cleanup_local_queue)
weak_ref(id) == [type |-> "weakref", referent |-> id]

\* local_queue_ref() is not None: the queue was not collected yet
IsLive(subs, ref) == subs[ref.referent].alive

\* interface._local_signal_queues, an attribute cls.__new__(cls) does not make
LocalSignalQueues(attrs) ==
    IF "_local_signal_queues" \in DOMAIN attrs THEN attrs._local_signal_queues ELSE <<>>

\* interface._local_signal_queues[dbus_signal], with [] for a KeyError
ListOfQueues(attrs, signal) ==
    IF signal \in DOMAIN LocalSignalQueues(attrs) THEN LocalSignalQueues(attrs)[signal] ELSE <<>>

\* signal.__aiter__(): an async generator whose body has not started
AsyncGenerator(obj, key) ==
    [obj |-> obj, key |-> key, pc |-> "created", alive |-> TRUE, items |-> <<>>, match |-> None]

\* DbusSignalBinded._get_local_queue: the list is made on a KeyError, and a
\* weak reference to the new queue is appended to it
_get_local_queue(attrs, signal, id) ==
    [attrs EXCEPT !._local_signal_queues =
        (signal :> Append(ListOfQueues(attrs, signal), weak_ref(id))) @@ @]

\* DbusSignalBinded._get_dbus_queue up to its await
_get_dbus_queue(attrs, signal) ==
    IF \/ attrs.attached_bus = None
       \/ attrs.remote_service_name = None
       \/ attrs.remote_object_path = None
       \/ signal.interface_name = None
       \/ signal.signal_name = None
    THEN Raise("AssertionError")
    ELSE Return([bus |-> attrs.attached_bus,
                 service |-> attrs.remote_service_name,
                 path |-> attrs.remote_object_path,
                 interface |-> signal.interface_name,
                 member |-> signal.signal_name])

\* DbusSignalBinded.__aiter__ from its start to the first await of a queue:
\* the binding mode is read when the body starts to run
aiter_start(attrs, signal, id) ==
    IF attrs.is_binded
    THEN [attrs |-> attrs, queue |-> _get_dbus_queue(attrs, signal), pc |-> "dbus"]
    ELSE [attrs |-> _get_local_queue(attrs, signal, id), queue |-> Return(None), pc |-> "local"]

\* signature.startswith('(')
StartsWithParen(signature) == Len(signature.chars) > 0 /\ signature.chars[1] = "("

\* DbusSignalBinded._emit_message
_emit_message(attrs, signal, args) ==
    IF \/ attrs.attached_bus = None
       \/ attrs.serving_object_path = None
       \/ signal.interface_name = None
       \/ signal.signal_name = None
    THEN [exc |-> "AssertionError", sent |-> <<>>]
    ELSE [exc |-> "ok",
          sent |-> <<append_data(
                       NewMessage("signal", attrs.attached_bus, None, attrs.serving_object_path,
                                  signal.interface_name, signal.signal_name),
                       signal.signature,
                       IF ~StartsWithParen(signal.signature) /\ args.type = "tuple"
                       THEN args.items ELSE <<args>>)>>]

\* The place in the list of the first collected queue, or one past its end
FirstDead(subs, list) ==
    IF \E i \in DOMAIN list : ~IsLive(subs, list[i])
    THEN CHOOSE i \in DOMAIN list :
             /\ ~IsLive(subs, list[i])
             /\ \A j \in 1 .. i - 1 : IsLive(subs, list[j])
    ELSE Len(list) + 1

\* local_queue.put_nowait(args) for the first count queues of the list
PutNowait(subs, list, count, args) ==
    [id \in DOMAIN subs |->
        IF \E i \in 1 .. count : list[i].referent = id
        THEN [subs[id] EXCEPT !.items = Append(@, args)]
        ELSE subs[id]]

\* The loop of emit: the assertion stops it at the first collected queue
emit_local(subs, list, stop, args) ==
    [exc |-> IF stop <= Len(list) THEN "AssertionError" ELSE "ok",
     subscribers |-> PutNowait(subs, list, stop - 1, args)]

\* DbusSignalBinded.emit
emit(attrs, signal, subs, args, message) ==
    IF "activated_interfaces" \notin DOMAIN attrs
    THEN [exc |-> "AttributeError", sent |-> <<>>, subscribers |-> subs]
    ELSE IF message.exc # "ok"
    THEN [exc |-> message.exc, sent |-> <<>>, subscribers |-> subs]
    ELSE [sent |-> message.sent] @@
         emit_local(subs, ListOfQueues(attrs, signal),
                    FirstDead(subs, ListOfQueues(attrs, signal)), args)

\* The message of emit: _emit_message runs when activated_interfaces is not empty
EmitMessage(attrs, signal, args) ==
    IF "activated_interfaces" \in DOMAIN attrs /\ attrs.activated_interfaces # <<>>
    THEN _emit_message(attrs, signal, args)
    ELSE [exc |-> "ok", sent |-> <<>>]

\* DbusSignalBinded._cleanup_local_queue: list.remove(queue_ref)
RemoveRef(list, ref) ==
    SelectSeq(list, LAMBDA other : other # ref)

_cleanup_local_queue(attrs, signal, ref) ==
    [attrs EXCEPT !._local_signal_queues[signal] = RemoveRef(@, ref)]

\* The signal members of the instance's class
SignalsOf(obj) == MembersOfType(objects[obj].cls, "DbusSignal")

\* The generators made so far
Made == DOMAIN subscribers

\* generator = obj.key.__aiter__(): nothing of the body runs
Aiter ==
    /\ op = Idle
    /\ Cardinality(Made) < MaxSubscribers
    /\ \E obj \in DOMAIN objects :
       \E key \in SignalsOf(obj) :
           /\ subscribers' = (Cardinality(Made) + 1 :> AsyncGenerator(obj, key)) @@ subscribers
           /\ UNCHANGED <<DEFAULT_BUS, opened, classes, last, objects, op, sent, invoked, registered>>

\* The first generator.__anext__(): the body runs up to its first await
Anext ==
    /\ op = Idle
    /\ \E id \in Made :
           /\ subscribers[id].alive
           /\ subscribers[id].pc = "created"
           /\ \E started \in {aiter_start(objects[subscribers[id].obj].attrs,
                                         Descriptor(subscribers[id].obj, subscribers[id].key),
                                         id)} :
                  /\ objects' = SetAttributes(objects, subscribers[id].obj, started.attrs)
                  /\ subscribers' =
                         [subscribers EXCEPT
                             ![id].pc = IF started.queue.exc = "ok" THEN started.pc ELSE "closed",
                             ![id].match = started.queue.value]
                  /\ op' = Operation("anext", subscribers[id].obj, subscribers[id].key, <<id>>,
                                     <<>>, "done",
                                     [exc |-> started.queue.exc, value |-> None])
                  /\ sent' = <<>>
                  /\ invoked' = <<>>
                  /\ UNCHANGED <<DEFAULT_BUS, opened, classes, last, registered>>

\* await data_queue.get() returns and the generator yields the value
Receive ==
    /\ op = Idle
    /\ \E id \in Made :
           /\ subscribers[id].alive
           /\ subscribers[id].pc = "local"
           /\ subscribers[id].items # <<>>
           /\ subscribers' = [subscribers EXCEPT ![id].items = Tail(@)]
           /\ op' = Operation("receive", subscribers[id].obj, subscribers[id].key, <<id>>,
                              <<>>, "done", Return(Head(subscribers[id].items)))
           /\ sent' = <<>>
           /\ invoked' = <<>>
           /\ UNCHANGED <<DEFAULT_BUS, opened, classes, last, objects, registered>>

\* The last reference to a generator goes and its queue is collected: the
\* weak reference to the queue is dead, its callback has yet to run
Collect ==
    \E id \in Made :
        /\ subscribers[id].alive
        /\ subscribers' = [subscribers EXCEPT ![id].alive = FALSE, ![id].items = <<>>]
        /\ UNCHANGED <<DEFAULT_BUS, opened, classes, last, objects, op, sent, invoked, registered>>

\* The callback of a dead weak reference runs
CleanupLocalQueue ==
    \E obj \in DOMAIN objects :
    \E signal \in DOMAIN LocalSignalQueues(objects[obj].attrs) :
    \E i \in DOMAIN LocalSignalQueues(objects[obj].attrs)[signal] :
    \E ref \in {LocalSignalQueues(objects[obj].attrs)[signal][i]} :
        /\ ~IsLive(subscribers, ref)
        /\ objects' = SetAttributes(objects, obj,
                                    _cleanup_local_queue(objects[obj].attrs, signal, ref))
        /\ UNCHANGED <<DEFAULT_BUS, opened, classes, last, subscribers, op, sent, invoked, registered>>

\* obj.key.emit(args)
Emit ==
    /\ op = Idle
    /\ \A id \in Made : Len(subscribers[id].items) < MaxQueued
    /\ \E obj \in DOMAIN objects :
       \E key \in SignalsOf(obj) :
       \E args \in SignalValues :
       \E message \in {EmitMessage(objects[obj].attrs, Descriptor(obj, key), args)} :
       \E emitted \in {emit(objects[obj].attrs, Descriptor(obj, key), subscribers, args, message)} :
           /\ subscribers' = emitted.subscribers
           /\ sent' = emitted.sent
           /\ invoked' = <<>>
           /\ op' = Operation("emit", obj, key, <<args>>, <<>>, "done",
                              [exc |-> emitted.exc, value |-> None])
           /\ UNCHANGED <<DEFAULT_BUS, opened, classes, last, objects, registered>>

NextSignals ==
    \/ Construct
    \/ NewConnect
    \/ Connect
    \/ StartServing
    \/ Aiter
    \/ Anext
    \/ Receive
    \/ Collect
    \/ CleanupLocalQueue
    \/ Emit
    \/ Discard

SpecSignals == InitInstances /\ [][NextSignals]_vars

-----------------------------------------------------------------------------
(* DbusMethodBinded._call_from_dbus: a method request from the bus *)

\* What request_message.get_contents() gives
RequestContents ==
    {None, PyInt(10), PyTuple(<<PyInt(10), PyInt(20)>>),
     PyTuple(<<PyInt(10), PyInt(20), PyInt(30)>>)}

\* How the body of the local implementation ends
LocalOutcomes ==
    {Return(None), Return(PyInt(7)), Return(PyTuple(<<PyInt(7), PyInt(8)>>)),
     Raise("ValueError")}

\* The method members of the instance that a registration with the bus
\* engine holds
HasMethod(reg, attrs, method) ==
    /\ "serving_object_path" \in DOMAIN attrs
    /\ \E i \in DOMAIN reg :
           /\ reg[i].object_path = attrs.serving_object_path
           /\ reg[i].interface_name = method.interface_name
           /\ \E j \in DOMAIN reg[i].interface.members :
                  /\ reg[i].interface.members[j].add = "add_method"
                  /\ reg[i].interface.members[j].name = method.method_name

DispatchedMethods(obj) ==
    {key \in MembersOfType(objects[obj].cls, "DbusMethod") :
        HasMethod(registered, objects[obj].attrs, Descriptor(obj, key))}

\* The request the engine hands to _call_from_dbus
RequestMessage(attrs, method, contents) ==
    [type |-> "SdBusMessage", kind |-> "method_call", bus |-> attrs.attached_bus,
     path |-> attrs.serving_object_path, interface |-> method.interface_name,
     member |-> method.method_name, contents |-> contents]

\* request_message.create_reply()
create_reply(request_message) ==
    NewMessage("method_return", request_message.bus, None, request_message.path,
               request_message.interface, request_message.member)

\* The request data handed over as one argument whatever it is
RequestArgs_Single(request_data) == <<request_data>>

\* The arguments _call_from_dbus gives the local method: a tuple is
\* unpacked, None gives none, any other value is the one argument
RequestArgs(request_data) ==
    IF request_data.type = "tuple" THEN request_data.items
    ELSE IF request_data = None THEN <<>>
    ELSE <<request_data>>

\* _call_from_dbus up to its await: the call of the local method
call_from_dbus_call(method, obj, request_message) ==
    CallLocal(method.original_method, obj, RequestArgs(request_message.contents), <<>>)

\* _call_from_dbus after its await: an exception of the local method leaves
\* through it, a result is appended to the reply and the reply is sent
call_from_dbus_reply(method, reply_message, outcome) ==
    IF outcome.exc # "ok"
    THEN [exc |-> outcome.exc, sent |-> <<>>]
    ELSE [exc |-> "ok",
          sent |-> <<IF outcome.value.type = "tuple"
                     THEN append_data(reply_message, method.result_signature,
                                      outcome.value.items)
                     ELSE IF outcome.value # None
                     THEN append_data(reply_message, method.result_signature,
                                      <<outcome.value>>)
                     ELSE reply_message>>]

\* The engine calls _call_from_dbus with a request; it runs to its await
CallFromDbus ==
    /\ op = Idle
    /\ \E obj \in DOMAIN objects :
       \E key \in DispatchedMethods(obj) :
       \E contents \in RequestContents :
       \E request_message \in {RequestMessage(objects[obj].attrs, Descriptor(obj, key), contents)} :
       \E called \in {call_from_dbus_call(Descriptor(obj, key), obj, request_message)} :
           /\ op' = Operation("call_from_dbus", obj, key, <<request_message>>, <<>>,
                              IF called.result.exc = "ok" THEN "running" ELSE "done",
                              [exc |-> called.result.exc, value |-> None])
           /\ sent' = <<>>
           /\ invoked' = called.invoked
           /\ UNCHANGED <<DEFAULT_BUS, opened, classes, last, subscribers, objects, registered>>

\* The local method ends and _call_from_dbus runs to its end; the value
\* of the operation is reply_data, what the await gave
LocalMethodEnds ==
    /\ op.type = "call_from_dbus"
    /\ op.pc = "running"
    /\ \E outcome \in LocalOutcomes :
       \E replied \in {call_from_dbus_reply(Descriptor(op.obj, op.key),
                                           create_reply(op.args[1]), outcome)} :
           /\ op' = [op EXCEPT !.pc = "done", !.exc = replied.exc,
                                !.value = outcome.value]
           /\ sent' = replied.sent
           /\ UNCHANGED <<DEFAULT_BUS, opened, classes, last, subscribers, objects, invoked, registered>>

\* obj = cls() for the example class or the class derived from it, whose
\* child_method takes no argument
ConstructDispatched == ConstructIn(Instances, {"ExampleInterface", "ChildInterface"})

NextDispatch ==
    \/ ConstructDispatched
    \/ NewConnect
    \/ Connect
    \/ StartServing
    \/ CallFromDbus
    \/ LocalMethodEnds
    \/ Discard

SpecDispatch == InitInstances /\ [][NextDispatch]_vars

-----------------------------------------------------------------------------
(* Two instances of one class *)

PairInstances == {"x", "y"}

\* obj = cls() for either instance
ConstructPair == ConstructIn(PairInstances, InstanceClasses)

\* obj = cls.new_connect(bus, service_name, object_path) for either instance
NewConnectPair == NewConnectIn(PairInstances)

NextPair ==
    \/ ConstructPair
    \/ NewConnectPair
    \/ Connect
    \/ StartServing
    \/ Aiter
    \/ Anext
    \/ Discard

SpecPair == InitInstances /\ [][NextPair]_vars

-----------------------------------------------------------------------------
(* Serving instances of a class and of a class derived from it *)

ServedClasses == {"ExampleInterface", "ChildInterface"}

\* obj = cls() for either instance and either class
ConstructServed == ConstructIn(PairInstances, ServedClasses)

NextServe ==
    \/ ConstructServed
    \/ Connect
    \/ StartServing
    \/ Discard

SpecServe == InitInstances /\ [][NextServe]_vars

-----------------------------------------------------------------------------
(* Serving classes with signals only and without an interface name *)

InitMembers ==
    /\ classes = MemberClasses
    /\ last = [statement |-> None, exc |-> "ok"]
    /\ NoInstances

\* obj = cls() for either instance and any of the three classes
ConstructMember == ConstructIn(PairInstances, DOMAIN MemberClasses)

NextMembers ==
    \/ ConstructMember
    \/ StartServing
    \/ Emit
    \/ Discard

SpecMembers == InitMembers /\ [][NextMembers]_vars

-----------------------------------------------------------------------------
(* An instance served more than once *)

MaxServings == 2

\* await obj.start_serving(bus, object_path), on an instance that is
\* served already too
StartServingAgain == StartServingUpTo(Buses, MaxServings)

NextLifetime ==
    \/ Construct
    \/ NewConnect
    \/ Connect
    \/ StartServingAgain
    \/ GetSync
    \/ SetSync
    \/ Aiter
    \/ Anext
    \/ Collect
    \/ CleanupLocalQueue
    \/ Emit
    \/ Discard

SpecLifetime == InitInstances /\ [][NextLifetime]_vars

-----------------------------------------------------------------------------
(* get_bus: the default bus *)

MaxOpened == 2

\* The names that tell the handles of sd_bus_open apart
HandleIds == <<"default", "second", "third", "fourth">>

\* sd_bus_open(): a new handle at every call
sd_bus_open(handles) == SdBus(HandleIds[Len(handles) + 1])

\* A get_bus that opens a bus at every call
get_bus_Reopening(default_bus, handles) ==
    [DEFAULT_BUS |-> sd_bus_open(handles),
     opened |-> Append(handles, sd_bus_open(handles)),
     value |-> sd_bus_open(handles)]

\* get_bus(): the global's value, which is set from sd_bus_open when it is None
get_bus(default_bus, handles) ==
    IF default_bus = None
    THEN [DEFAULT_BUS |-> sd_bus_open(handles),
          opened |-> Append(handles, sd_bus_open(handles)),
          value |-> sd_bus_open(handles)]
    ELSE [DEFAULT_BUS |-> default_bus, opened |-> handles, value |-> default_bus]

\* The handles the application can hold
Opened == {opened[i] : i \in DOMAIN opened}

\* bus = get_bus()
GetBus ==
    /\ op = Idle
    /\ Len(opened) < MaxOpened
    /\ \E got \in {get_bus(DEFAULT_BUS, opened)} :
           /\ DEFAULT_BUS' = got.DEFAULT_BUS
           /\ opened' = got.opened
           /\ op' = Operation("get_bus", "", "get_bus", <<>>, <<>>, "done", Return(got.value))
           /\ sent' = <<>>
           /\ invoked' = <<>>
           /\ UNCHANGED <<classes, last, subscribers, objects, registered>>

\* obj._connect(bus, service_name, object_path) with a handle of get_bus
ConnectOpened == op = Idle /\ ConnectWith(Opened)

\* await obj.start_serving(bus, object_path) with a handle of get_bus
StartServingOpened == StartServingWith(Opened)

\* obj = cls.new_connect(bus, service_name, object_path) with a handle of
\* get_bus
NewConnectOpened == op = Idle /\ NewConnectWith(PairInstances, Opened)

NextBus ==
    \/ GetBus
    \/ ConstructPair
    \/ NewConnectOpened
    \/ ConnectOpened
    \/ StartServingOpened
    \/ Discard

SpecBus == InitInstances /\ [][NextBus]_vars

-----------------------------------------------------------------------------
(* The names of members: _method_name_converter *)

MaxNameLen == 4

\* The characters the identifiers are made of
NameAlphabet == {"a", "b", "_"}

\* The identifiers of lowercase letters and underscores up to the length
Identifiers == UNION {[1 .. n -> NameAlphabet] : n \in 1 .. MaxNameLen}

\* ''.join(_method_name_converter(python_name)) is called with an identifier
InitNames ==
    /\ DEFAULT_BUS = None
    /\ opened = <<>>
    /\ classes = <<>>
    /\ last = [statement |-> None, exc |-> "ok"]
    /\ objects = <<>>
    /\ sent = <<>>
    /\ invoked = <<>>
    /\ registered = <<>>
    /\ subscribers = <<>>
    /\ \E python_name \in Identifiers :
           op = [Idle EXCEPT !.type = "_method_name_converter", !.args = <<Str(python_name)>>,
                             !.pc = "called"]

\* The generator runs to its end and the characters are joined
ConvertName ==
    /\ op.type = "_method_name_converter"
    /\ op.pc = "called"
    /\ op' = [op EXCEPT !.pc = "done", !.value = _method_name_converter(op.args[1])]
    /\ UNCHANGED <<DEFAULT_BUS, opened, classes, last, subscribers, objects, sent, invoked, registered>>

NextNames == ConvertName

SpecNames == InitNames /\ [][NextNames]_vars

-----------------------------------------------------------------------------
(* Claims about class construction *)

Stmt == last.statement

Happened == Stmt # None

\* A body entry that is not wrapped in the override marker
Unmarked(value) == value.type \in {"function", "DbusMethod", "DbusProperty"}

\* Class b holds a Method or a Property in its own body under key
DirectlyDeclares(b, key) ==
    /\ key \in DOMAIN Table[b].dict
    /\ Table[b].dict[key].type \in {"DbusMethod", "DbusProperty"}

DirectBases == Range(Stmt.bases)

AllAncestors == UNION {{b} \cup Ancestors(Table, b) : b \in DirectBases}

\* C1: a class statement whose body redefines, without the override marker
\* (by a plain function or by a freshly decorated member), a key under which
\* one of its direct bases itself declares a Method or a Property ends with
\* TypeError and no class of that name exists.
C1_DirectRedefinitionRejected ==
    Happened =>
        \A key \in DOMAIN Stmt.namespace :
            (/\ Unmarked(Stmt.namespace[key])
             /\ \E b \in DirectBases : DirectlyDeclares(b, key))
            => (last.exc = "TypeError" /\ Stmt.name \notin DOMAIN classes)

\* A subclass of the test's base class that redefined the inherited Property
\* by a fresh dbus_property, and was rejected
C1_Witness ==
    /\ Happened
    /\ last.exc = "TypeError"
    /\ Stmt.bases = <<"GoodDbusInterface">>
    /\ DOMAIN Stmt.namespace = {"test_property"}
    /\ Stmt.namespace["test_property"].type = "DbusProperty"
    /\ Stmt.name \notin DOMAIN classes

\* C2: the same rejection when the key is declared by any framework ancestor
\* of the new class, not only by a direct base.
C2_AncestorRedefinitionRejected ==
    Happened =>
        \A key \in DOMAIN Stmt.namespace :
            (/\ Unmarked(Stmt.namespace[key])
             /\ \E a \in AllAncestors : DirectlyDeclares(a, key))
            => last.exc = "TypeError"

\* The descriptor fields that make the wire contract of a Method
SameContract(d, e) ==
    /\ d.method_name = e.method_name
    /\ d.input_signature = e.input_signature
    /\ d.result_signature = e.result_signature
    /\ d.flags = e.flags
    /\ d.interface_name = e.interface_name
    /\ d.serving_enabled = e.serving_enabled

\* What the new class inherits under key from its bases
Inherited(key) == getattr_static(Table, Stmt.bases[1], key)

\* C3: a class statement whose body holds the override marker around a plain
\* function at a key inherited as a Method (and redefines no other inherited
\* member) succeeds, and the class's descriptor at that key is a Method with
\* the overriding function as callable and the wire contract of the inherited
\* descriptor, which keeps its own callable.
C3_OverrideKeepsContract ==
    Happened =>
        \A key \in DOMAIN Stmt.namespace :
            (/\ Stmt.namespace[key].type = "DbusOverload"
             /\ Inherited(key).type = "DbusMethod"
             /\ \A other \in DOMAIN Stmt.namespace \ {key} :
                   Inherited(other).type \notin DbusSomethingTypes)
            => /\ last.exc = "ok"
               /\ Table[Stmt.name].dict[key].type = "DbusMethod"
               /\ Table[Stmt.name].dict[key].original_method = Stmt.namespace[key].original
               /\ SameContract(Table[Stmt.name].dict[key], Inherited(key))
               /\ Inherited(key).original_method # Stmt.namespace[key].original

\* C4: a class statement whose body binds only keys that no ancestor declares
\* as a dbus member, to plain functions or decorated members, succeeds, and
\* every decorated key of the body is in the declared set of the new class.
C4_NewMembersAccepted ==
    Happened =>
        ((\A key \in DOMAIN Stmt.namespace :
             /\ Unmarked(Stmt.namespace[key])
             /\ \A a \in AllAncestors : ~DirectlyDeclares(a, key))
         => /\ last.exc = "ok"
            /\ Stmt.name \in DOMAIN classes
            /\ \A key \in DOMAIN Stmt.namespace :
                  IsDbusSomething(Stmt.namespace[key])
                  => key \in classes[Stmt.name]._dbus_declared_interfaces)

\* A class that declared a Method and a Property no ancestor of it declares
C4_Witness ==
    /\ Happened
    /\ last.exc = "ok"
    /\ Stmt.bases = <<"DbusInterfaceBase">>
    /\ DOMAIN Stmt.namespace = {"ping", "test_property"}
    /\ Stmt.namespace["ping"].type = "DbusMethod"
    /\ Stmt.namespace["test_property"].type = "DbusProperty"
    /\ classes[Stmt.name]._dbus_declared_interfaces = {"ping", "test_property"}

\* The wire names a class statement gives that the bus grammar rejects
InvalidNames ==
    {n \in {Stmt.interface_name} : n # None /\ ~is_interface_name_valid(n)}
    \cup {Stmt.namespace[key].method_name : key \in {k \in DOMAIN Stmt.namespace :
             /\ Stmt.namespace[k].type = "DbusMethod"
             /\ ~is_member_name_valid(Stmt.namespace[k].method_name)}}
    \cup {Stmt.namespace[key].property_name : key \in {k \in DOMAIN Stmt.namespace :
             /\ Stmt.namespace[k].type = "DbusProperty"
             /\ ~is_member_name_valid(Stmt.namespace[k].property_name)}}

\* C5: a class statement that gives an interface name, a method name or a
\* property name outside the bus grammar ends with an exception and makes no
\* class.
C5_InvalidNamesRejected ==
    (Happened /\ InvalidNames # {}) =>
        (last.exc # "ok" /\ Stmt.name \notin DOMAIN classes)

-----------------------------------------------------------------------------
(* Claims about method calls and property sets on instances *)

\* The instance is proxy-bound
ProxyBound(obj) == objects[obj].attrs.is_binded

\* The step is a call of a method member: DbusMethodBinded.__call__ ran
IsCall == op = Idle /\ op'.type = "call"

\* Parameter i of the method (from 1) has a source in the call: a positional
\* argument at its position, a keyword argument of its name, or a default
SlotPresent(method, i, args, kwargs) ==
    \/ i <= Len(args)
    \/ method.args_names[i] \in DOMAIN kwargs
    \/ i > method.default_args_start_at

\* What the slot takes, by presence: positional, else keyword, else default
SlotByPresence(method, i, args, kwargs) ==
    IF i <= Len(args) THEN args[i]
    ELSE IF method.args_names[i] \in DOMAIN kwargs THEN kwargs[method.args_names[i]]
    ELSE method.args_defaults[i - method.default_args_start_at]

AllSlotsPresent(method, args, kwargs) ==
    \A i \in 1 .. method.num_of_args : SlotPresent(method, i, args, kwargs)

ListByPresence(method, args, kwargs) ==
    [i \in 1 .. method.num_of_args |-> SlotByPresence(method, i, args, kwargs)]

C6_Built(method, after) ==
    (/\ Len(after.args) # method.num_of_args
     /\ AllSlotsPresent(method, after.args, after.kwargs))
    => /\ after.pc = "coroutine"
       /\ after.coro.fn = "_call_dbus"
       /\ after.coro.args = ListByPresence(method, after.args, after.kwargs)

\* C6: a call on a proxy-bound instance that does not pass exactly the full
\* positional count hands _call_dbus the list built slot by slot over the
\* declared parameters: the positional argument at the position if the
\* caller passed one, else the keyword argument of that name, else the
\* declared default; (a, b, c=1, d=2) called with (10, 20) gives
\* [10, 20, 1, 2].
C6_SlotBySlot ==
    [][(IsCall /\ ProxyBound(op'.obj)) => C6_Built(Descriptor(op'.obj, op'.key), op')]_vars

C7_Failed(method, after) ==
    ~AllSlotsPresent(method, after.args, after.kwargs)
    => /\ after.pc = "done"
       /\ after.exc = "TypeError"
       /\ after.coro = None
       /\ sent' = <<>>
       /\ invoked' = <<>>
       /\ objects' = objects
       /\ registered' = registered

\* C7: on a proxy-bound instance, a call in which some parameter has no
\* positional argument, no keyword argument of its name and no default
\* raises TypeError in the call itself: no coroutine is made, no request
\* message is built or sent, and the instance and the engine are unchanged.
C7_MissingSlotFailsAtOnce ==
    [][(IsCall /\ ProxyBound(op'.obj)) => C7_Failed(Descriptor(op'.obj, op'.key), op')]_vars

C7_Witness ==
    /\ op.type = "call"
    /\ op.key = "method_abcd"
    /\ op.args = <<PyInt(10)>>
    /\ DOMAIN op.kwargs = {"c"}
    /\ ProxyBound(op.obj)
    /\ op.pc = "done"
    /\ op.exc = "TypeError"
    /\ sent = <<>>
    /\ invoked = <<>>

\* The request is addressed to the instance's peer and the method
C8_Addressed(message, attrs, method) ==
    /\ message.kind = "method_call"
    /\ message.bus = attrs.attached_bus
    /\ message.destination = attrs.remote_service_name
    /\ message.path = attrs.remote_object_path
    /\ message.interface = method.interface_name
    /\ message.member = method.method_name

\* The step in which the coroutine of _call_dbus sends its request
C8_Sends ==
    /\ op.type = "call"
    /\ op.pc = "coroutine"
    /\ op.coro.fn = "_call_dbus"
    /\ op'.pc = "awaiting"

\* The step in which the awaited call returns to its caller
C8_Returns ==
    /\ op.type = "call"
    /\ op.pc = "awaiting"
    /\ op'.pc = "done"
    /\ op'.exc = "ok"

C8_Step ==
    /\ (IsCall /\ ProxyBound(op'.obj)) => (sent' = <<>> /\ invoked' = <<>>)
    /\ C8_Sends => /\ sent = <<>>
                   /\ Len(sent') = 1
                   /\ C8_Addressed(sent'[1], objects[op.obj].attrs, Descriptor(op.obj, op.key))
                   /\ invoked' = <<>>
    /\ C8_Returns => /\ Len(sent') = 1
                     /\ Len(op'.reply) = 1
                     /\ op'.value = op'.reply[1]
                     /\ invoked' = <<>>

\* C8: a method call on a proxy-bound instance that succeeds sends exactly
\* one request, addressed to the instance's remote service name and remote
\* object path and to the descriptor's interface name and method name,
\* awaits one reply and returns the contents of that reply; the local
\* function is not called at any step.
C8_OneRequestOneReply == [][C8_Step]_vars

C8_Witness ==
    /\ op.type = "call"
    /\ op.key = "method_abcd"
    /\ op.pc = "done"
    /\ op.exc = "ok"
    /\ Len(sent) = 1
    /\ sent[1].member = Str(<<"M", "e", "t", "h", "o", "d", "A", "b", "c", "d">>)
    /\ sent[1].path = Str(<<"/", "q">>)
    /\ op.reply = <<PyTuple(<<PyInt(7), PyInt(8)>>)>>
    /\ op.value = PyTuple(<<PyInt(7), PyInt(8)>>)
    /\ invoked = <<>>

\* The step in which the coroutine of the local function runs
C9_Runs ==
    /\ op.type = "call"
    /\ op.pc = "coroutine"
    /\ op.coro.fn = "original_method"
    /\ op'.pc # "coroutine"

C9_Step ==
    /\ (IsCall /\ ~ProxyBound(op'.obj))
           => /\ invoked' = <<Invocation(Descriptor(op'.obj, op'.key).original_method,
                                         op'.obj, op'.args, op'.kwargs)>>
              /\ sent' = <<>>
    /\ C9_Runs => (sent' = <<>> /\ op'.pc = "done")

\* C9: a method call on an instance that is not proxy-bound, unbound or
\* server-activated, builds and sends no message, neither in the call nor
\* when its coroutine runs, and calls the underlying function once, on the
\* instance, with the caller's positional and keyword arguments as passed.
C9_LocalCallBypassesBus == [][C9_Step]_vars

C9_Witness ==
    /\ op.type = "call"
    /\ op.key = "method_abcd"
    /\ ~ProxyBound(op.obj)
    /\ objects[op.obj].attrs.activated_interfaces # <<>>
    /\ op.args = <<PyInt(10), PyInt(20)>>
    /\ DOMAIN op.kwargs = {"d"}
    /\ op.pc = "done"
    /\ op.exc = "ok"
    /\ Len(invoked) = 1
    /\ invoked[1].args = op.args
    /\ invoked[1].kwargs = op.kwargs
    /\ sent = <<>>

\* The operation sets a property whose descriptor has no setter
NoSetter(o) ==
    /\ o.type \in {"set_sync", "set_async"}
    /\ Descriptor(o.obj, o.key).property_set = None

\* The accessor has run: set_sync returned, or set_async was awaited
C10_Ran == op.pc # "coroutine"

\* C10 as the specification states it: a property set on a descriptor
\* without setter fails with the no-setter error under the synchronous and
\* under the asynchronous accessor, in every binding mode, and sends no
\* message.
C10_NoSetterAlwaysFails ==
    (NoSetter(op) /\ C10_Ran) => (op.exc = "ValueError" /\ sent = <<>>)

\* set_sync ran in this step
C10_SetSync == op = Idle /\ op'.type = "set_sync"

\* The coroutine of set_async ran in this step
C10_SetAsync == op.type = "set_async" /\ op.pc = "coroutine" /\ op'.pc # "coroutine"

C10_Fails ==
    /\ op'.pc = "done"
    /\ op'.exc = "ValueError"
    /\ sent' = <<>>
    /\ invoked' = <<>>
    /\ objects' = objects
    /\ registered' = registered

C10_Requests ==
    /\ op'.pc = "awaiting"
    /\ op'.exc = "ok"
    /\ Len(sent') = 1
    /\ sent'[1].kind = "property_set"
    /\ sent'[1].destination = objects[op.obj].attrs.remote_service_name
    /\ sent'[1].path = objects[op.obj].attrs.remote_object_path
    /\ invoked' = <<>>
    /\ objects' = objects
    /\ registered' = registered

C10_Step ==
    /\ (C10_SetSync /\ NoSetter(op')) => C10_Fails
    /\ (C10_SetAsync /\ NoSetter(op))
           => IF ProxyBound(op.obj) THEN C10_Requests ELSE C10_Fails

\* C10, amended: on a descriptor without setter, set_sync raises ValueError
\* in every binding mode, and set_async raises it when the instance is not
\* proxy-bound; both leave the instance unchanged and send no message.  On
\* a proxy-bound instance set_async does not look at the local setter: it
\* sends one property-set request to the remote object.
C10_NoSetterFailsLocally == [][C10_Step]_vars

C10_Witness ==
    /\ NoSetter(op)
    /\ op.type = "set_async"
    /\ ~ProxyBound(op.obj)
    /\ objects[op.obj].attrs.activated_interfaces # <<>>
    /\ op.pc = "done"
    /\ op.exc = "ValueError"
    /\ sent = <<>>
    /\ invoked = <<>>

-----------------------------------------------------------------------------
(* Claims about the property accessors *)

\* The property descriptor the operation is about
PropertyOf(o) == Descriptor(o.obj, o.key)

\* The one call of the local getter on the instance
GetterCall(o) == <<Invocation(PropertyOf(o).property_get, o.obj, <<>>, <<>>)>>

\* C11: get_sync returns what the local getter returns for the instance, in
\* every binding mode (unbound, proxy-bound, server-activated), and builds
\* and sends no bus message.
C11_SyncGetIsLocal ==
    op.type = "get_sync"
    => /\ op.pc = "done"
       /\ op.exc = "ok"
       /\ op.value = LocalResult(PropertyOf(op).property_get)
       /\ invoked = GetterCall(op)
       /\ sent = <<>>

C11_Witness ==
    /\ op.type = "get_sync"
    /\ op.key = "prop_ro"
    /\ ProxyBound(op.obj)
    /\ "activated_interfaces" \in DOMAIN objects[op.obj].attrs
    /\ objects[op.obj].attrs.activated_interfaces # <<>>
    /\ op.value = LocalResult(PropertyOf(op).property_get)
    /\ Len(invoked) = 1
    /\ sent = <<>>

\* The operation is an asynchronous property accessor
IsAsyncAccessor(o) == o.type \in {"get_async", "set_async"}

\* The step in which the coroutine of the accessor runs to its await or end
C12_Runs == IsAsyncAccessor(op) /\ op.pc = "coroutine" /\ op'.pc # "coroutine"

\* What the request of the accessor carries
C12_Data(o) ==
    IF o.type = "get_async" THEN <<>>
    ELSE <<[signature |-> Str(<<"v">>),
            values |-> <<PyTuple(<<PropertyOf(o).property_signature, o.args[1]>>)>>]>>

\* The request the accessor sends on a proxy-bound instance
C12_Request(o, attrs) ==
    [type |-> "SdBusMessage",
     kind |-> IF o.type = "get_async" THEN "property_get" ELSE "property_set",
     bus |-> attrs.attached_bus,
     destination |-> attrs.remote_service_name,
     path |-> attrs.remote_object_path,
     interface |-> PropertyOf(o).interface_name,
     member |-> PropertyOf(o).property_name,
     data |-> C12_Data(o)]

\* What the synchronous accessor of the same kind does
C12_Sync(o) ==
    IF o.type = "get_async" THEN get_sync(PropertyOf(o), o.obj)
    ELSE set_sync(PropertyOf(o), o.obj, o.args[1])

C12_AsSync(sync) ==
    /\ op'.pc = "done"
    /\ op'.exc = sync.result.exc
    /\ op'.value = sync.result.value
    /\ invoked' = sync.invoked
    /\ sent' = <<>>

C12_Remote ==
    /\ op'.pc = "awaiting"
    /\ sent' = <<C12_Request(op, objects[op.obj].attrs)>>
    /\ invoked' = <<>>

C12_Step ==
    /\ (op = Idle /\ IsAsyncAccessor(op')) => (sent' = <<>> /\ invoked' = <<>>)
    /\ C12_Runs => IF ProxyBound(op.obj) THEN C12_Remote ELSE C12_AsSync(C12_Sync(op))
    /\ (IsAsyncAccessor(op) /\ op.pc = "awaiting" /\ IsAsyncAccessor(op'))
           => (sent' = sent /\ invoked' = invoked)

\* C12: get_async and set_async route by binding mode.  On a proxy-bound
\* instance each sends exactly one property-get or property-set request to
\* the instance's remote service name and object path and the descriptor's
\* interface and property name, without calling the local getter or setter,
\* and the set carries the variant pair (declared signature, value).  On an
\* instance that is not proxy-bound they end as get_sync and set_sync do
\* and send no message.
C12_AsyncAccessorsRoute == [][C12_Step]_vars

C12_Witness ==
    /\ op.type = "set_async"
    /\ op.key = "prop_rw"
    /\ op.pc = "done"
    /\ op.exc = "ok"
    /\ ProxyBound(op.obj)
    /\ Len(sent) = 1
    /\ sent[1].kind = "property_set"
    /\ sent[1].member = Str(<<"P", "r", "o", "p", "R", "w">>)
    /\ sent[1].data = <<[signature |-> Str(<<"v">>),
                         values |-> <<PyTuple(<<Str(<<"s">>), Str(<<"v">>)>>)>>]>>
    /\ invoked = <<>>

-----------------------------------------------------------------------------
(* Claims about signals *)

\* The step is a call of emit
IsEmit == op = Idle /\ op'.type = "emit"

\* The handles of the instance's registrations with the bus engine
Registrations(obj) ==
    IF "activated_interfaces" \in DOMAIN objects[obj].attrs
    THEN objects[obj].attrs.activated_interfaces ELSE <<>>

\* The generators iterating the signal of the instance through a local queue
LocalSubscribers(obj, key) ==
    {id \in Made : /\ subscribers[id].obj = obj
                   /\ subscribers[id].key = key
                   /\ subscribers[id].pc = "local"}

LiveSubscribers(obj, key) == {id \in LocalSubscribers(obj, key) : subscribers[id].alive}

DroppedSubscribers(obj, key) == {id \in LocalSubscribers(obj, key) : ~subscribers[id].alive}

\* The emitted value is put in the queue of every live local subscriber
AllLiveReceive ==
    \A id \in LiveSubscribers(op'.obj, op'.key) :
        subscribers'[id].items = Append(subscribers[id].items, op'.args[1])

C13_Step ==
    (IsEmit /\ Registrations(op'.obj) = <<>>) => (sent' = <<>> /\ AllLiveReceive)

\* C13: emitting a signal on an object with zero active server registrations
\* sends no bus message, and every local subscriber of that signal on that
\* object receives the emitted value.
C13_LocalEmitReachesEverySubscriber == [][C13_Step]_vars

\* The one signal message of the emit, addressed by the serving path and
\* the descriptor's interface and signal name
C14_Message(attrs, signal) ==
    /\ Len(sent') = 1
    /\ sent'[1].kind = "signal"
    /\ sent'[1].path = attrs.serving_object_path
    /\ sent'[1].interface = signal.interface_name
    /\ sent'[1].member = signal.signal_name

C14_Step ==
    (IsEmit /\ Registrations(op'.obj) # <<>>)
        => /\ C14_Message(objects[op'.obj].attrs, Descriptor(op'.obj, op'.key))
           /\ AllLiveReceive

\* C14: each emit on an object that has at least one active server
\* registration sends exactly one bus signal message, addressed with the
\* object's serving path and the signal's interface and signal name, and
\* also pushes the value into every live local subscriber queue of that
\* signal.
C14_ServedEmitSendsAndFansOut == [][C14_Step]_vars

C15_Step ==
    (IsEmit /\ DroppedSubscribers(op'.obj, op'.key) # {})
        => /\ op'.exc = "ok"
           /\ \A id \in DroppedSubscribers(op'.obj, op'.key) : subscribers'[id] = subscribers[id]
           /\ AllLiveReceive

\* C15: after a local subscriber queue's only reference is dropped, every
\* later emit of that signal completes without error and attempts no
\* delivery to that queue, in every interleaving of the drop, the cleanup
\* callback and emit (a dead weak reference still in the list is skipped),
\* while the remaining live subscribers still receive the value.
C15_DroppedQueueLeavesFanOut == [][C15_Step]_vars

-----------------------------------------------------------------------------
(* Claims about the lifecycle of an instance *)

\* The instance holds a handle of a registration with the bus engine
ServerActivated(obj) ==
    /\ "activated_interfaces" \in DOMAIN objects[obj].attrs
    /\ objects[obj].attrs.activated_interfaces # <<>>

\* C16: after any sequence of connect-as-proxy and start-serving operations
\* on one instance, the instance is never both proxy-bound and
\* server-activated: the proxy flag is never set while the list of
\* registered interface handles is non-empty.
C16_ProxyAndServerExclude ==
    \A obj \in DOMAIN objects : ~(ProxyBound(obj) /\ ServerActivated(obj))

\* One member of each kind of the example class
C17_Members == {"method_opt", "prop_rw", "signal_a"}

\* What the bound members of an instance with the given attributes do: a
\* method call, an asynchronous property get and the start of a signal
\* iteration
DispatchOf(method, property, signal, obj, attrs) ==
    [method |-> DbusMethodBinded__call__(method, obj, attrs, <<PyInt(10), PyInt(20)>>, <<>>),
     property |-> get_async(property, obj, attrs),
     signal |-> IF attrs.is_binded THEN _get_dbus_queue(attrs, signal)
                ELSE Return(ListOfQueues(attrs, signal))]

Dispatch(obj, attrs) ==
    DispatchOf(Descriptor(obj, "method_opt"), Descriptor(obj, "prop_rw"),
               Descriptor(obj, "signal_a"), obj, attrs)

\* The step makes the instance or changes its binding state
C17_Touched(obj) == obj \notin DOMAIN objects \/ objects'[obj] # objects[obj]

\* The other instance keeps its state, its subscribers and what its members do
C17_Untouched(other) ==
    /\ objects'[other] = objects[other]
    /\ \A id \in Made : subscribers[id].obj = other => subscribers'[id] = subscribers[id]
    /\ Dispatch(other, objects'[other].attrs) = Dispatch(other, objects[other].attrs)

\* Instances of one class find the same descriptor under a name
C17_SharedDescriptor(obj, other) ==
    objects'[obj].cls = objects'[other].cls
        => \A key \in C17_Members :
               getattr_static(Table, objects'[obj].cls, key)
                   = getattr_static(Table, objects'[other].cls, key)

C17_Step ==
    \A obj \in DOMAIN objects' :
    \A other \in DOMAIN objects \ {obj} :
        C17_Touched(obj) => (C17_Untouched(other) /\ C17_SharedDescriptor(obj, other))

\* C17: binding state is per instance.  For two instances of the same class,
\* connecting or start-serving one of them leaves the other's binding mode,
\* remote peer and path, bus handle, registrations and local subscriber
\* lists unchanged, so the other's method, property and signal dispatch is
\* the same as before; both still share the same descriptor.
C17_BindingStateIsPerInstance == [][C17_Step]_vars

C17_Witness ==
    /\ DOMAIN objects = {"x", "y"}
    /\ objects["x"].cls = objects["y"].cls
    /\ ProxyBound("x")
    /\ ServerActivated("y")
    /\ ~ProxyBound("y")
    /\ ~ServerActivated("x")
    /\ ListOfQueues(objects["y"].attrs, Descriptor("y", "signal_a")) # <<>>
    /\ ListOfQueues(objects["x"].attrs, Descriptor("x", "signal_a")) = <<>>
    /\ Descriptor("x", "method_abcd") = Descriptor("y", "method_abcd")

-----------------------------------------------------------------------------
(* Claims about requests from the bus *)

\* The step in which the local implementation of a dispatched method ends
C18_Ends == op.type = "call_from_dbus" /\ op.pc = "running" /\ op'.pc = "done"

C18_Step ==
    C18_Ends => /\ op'.exc = "ok"
                /\ Len(sent') = 1
                /\ sent'[1].kind \in {"method_return", "method_error"}
                /\ sent'[1].member = op.args[1].member

\* C18: when the local implementation raises during server-side inbound
\* dispatch of a method request, the error does not propagate past the
\* dispatch entry point; a protocol-level error reply is sent for that
\* request instead, so every inbound request gets exactly one reply, normal
\* or error.
C18_EveryRequestIsReplied == [][C18_Step]_vars

-----------------------------------------------------------------------------
(* Claims about serving *)

\* The Method and Property members of the instance's class, inherited ones
\* included
WireMembers(obj) ==
    MembersOfType(objects[obj].cls, "DbusMethod") \cup MembersOfType(objects[obj].cls, "DbusProperty")

\* Those of them whose interface has serving enabled
ServingEnabled(obj) == {key \in WireMembers(obj) : Descriptor(obj, key).serving_enabled}

\* The distinct interface names among them
ServedInterfaceNames(obj) == {Descriptor(obj, key).interface_name : key \in ServingEnabled(obj)}

\* The name a member is registered under
WireName(member) ==
    IF member.type = "DbusMethod" THEN member.method_name ELSE member.property_name

\* The registration holds the member
Holds(registration, member) ==
    \E j \in DOMAIN registration.interface.members :
        /\ registration.interface.members[j].name = WireName(member)
        /\ registration.interface.members[j].add =
               (IF member.type = "DbusMethod" THEN "add_method" ELSE "add_property")

\* The instance is neither proxy-bound nor server-activated
Unbound(obj) == ~ProxyBound(obj) /\ ~ServerActivated(obj)

\* The step is a start_serving of an unbound instance
C19_Serves(obj) ==
    /\ op = Idle
    /\ op'.type = "start_serving"
    /\ op'.obj = obj
    /\ Unbound(obj)

\* The registrations the step made with the bus engine
C19_Made == SubSeq(registered', Len(registered) + 1, Len(registered'))

C19_Registered(obj, made) ==
    /\ op'.exc = "ok"
    /\ SubSeq(registered', 1, Len(registered)) = registered
    /\ Len(made) = Cardinality(ServedInterfaceNames(obj))
    /\ \A name \in ServedInterfaceNames(obj) :
           Cardinality({i \in DOMAIN made : made[i].interface_name = name}) = 1
    /\ \A i \in DOMAIN made :
           /\ made[i].object_path = op'.args[1]
           /\ Len(made[i].interface.members) =
                  Cardinality({key \in ServingEnabled(obj) :
                                  Descriptor(obj, key).interface_name = made[i].interface_name})
    /\ \A key \in ServingEnabled(obj) :
       \A i \in DOMAIN made :
           Holds(made[i], Descriptor(obj, key))
               <=> made[i].interface_name = Descriptor(obj, key).interface_name
    /\ \A key \in WireMembers(obj) \ ServingEnabled(obj) :
       \A i \in DOMAIN made : ~Holds(made[i], Descriptor(obj, key))
    /\ objects'[obj].attrs.activated_interfaces = [i \in DOMAIN made |-> made[i].interface]

C19_Step == \A obj \in DOMAIN objects : C19_Serves(obj) => C19_Registered(obj, C19_Made)

\* C19: after start-serving completes on an unbound instance, exactly one
\* interface registration has been made with the bus engine, at the given
\* object path, for each distinct interface name among the instance's
\* serving-enabled Method and Property members, inherited ones included;
\* each such member is in the registration of its own interface and in no
\* other; members of interfaces with serving disabled (the standard peer
\* and introspectable interfaces) are in no registration; and the
\* instance's handle list holds exactly those registrations.
C19_OneRegistrationPerInterface == [][C19_Step]_vars

C19_Witness ==
    /\ op.type = "start_serving"
    /\ op.exc = "ok"
    /\ objects[op.obj].cls = "ChildInterface"
    /\ ~ProxyBound(op.obj)
    /\ Len(registered) = 2
    /\ registered[1].interface_name = ChildInterfaceName
    /\ registered[2].interface_name = GoodInterfaceName
    /\ registered[1].object_path = op.args[1]
    /\ Len(registered[1].interface.members) = 2
    /\ Len(registered[2].interface.members) = 4
    /\ objects[op.obj].attrs.activated_interfaces = <<registered[1].interface, registered[2].interface>>

-----------------------------------------------------------------------------
(* Claims about member names *)

\* The name mapper has given its output for an identifier
C20_Mapped == op.type = "_method_name_converter" /\ op.pc = "done"

\* C20: for every identifier made of lowercase letters and underscores, the
\* output of the name mapper starts with an uppercase letter and contains no
\* underscore.
C20_MappedNamesAreCapitalised ==
    C20_Mapped => /\ op.value.chars # <<>>
                  /\ op.value.chars[1] \in Range(Upper)
                  /\ "_" \notin Range(op.value.chars)

-----------------------------------------------------------------------------
(* Claims about argument reconstruction *)

\* The call takes the reconstruction path of __call__ on a proxy-bound instance
Reconstructs(method, after) ==
    /\ IsCall
    /\ ProxyBound(after.obj)
    /\ Len(after.args) # method.num_of_args

\* The positions at which the caller passed a positional argument
PositionalSlots(method, args) == {i \in 1 .. method.num_of_args : i <= Len(args)}

C21_Filled(method, after) ==
    (Reconstructs(method, after) /\ AllSlotsPresent(method, after.args, after.kwargs))
    => /\ after.pc = "coroutine"
       /\ \A i \in PositionalSlots(method, after.args) : after.coro.args[i] = after.args[i]

\* C21: in argument reconstruction the source of a slot is decided by
\* presence, not by value: a positional argument the caller supplied at a
\* position fills that slot with exactly the supplied value, a null value
\* included, even if a keyword argument or a default also exists for the
\* slot.
C21_PositionalFillsByPresence ==
    [][C21_Filled(Descriptor(op'.obj, op'.key), op')]_vars

\* The slots of parameters that declare a default
DefaultSlots(method) == {i \in 1 .. method.num_of_args : i > method.default_args_start_at}

\* The caller passed a value other than null for the slot, by position or by name
SlotSupplied(method, i, args, kwargs) ==
    \/ i <= Len(args) /\ args[i] # None
    \/ method.args_names[i] \in DOMAIN kwargs /\ kwargs[method.args_names[i]] # None

\* The caller passed nothing for the slot
SlotOmitted(method, i, args, kwargs) ==
    i > Len(args) /\ method.args_names[i] \notin DOMAIN kwargs

\* Every slot without a default is supplied, every other slot supplied or omitted
C22_OnlyDefaultsMissing(method, args, kwargs) ==
    /\ \A i \in (1 .. method.num_of_args) \ DefaultSlots(method) :
           SlotSupplied(method, i, args, kwargs)
    /\ \A i \in DefaultSlots(method) :
           SlotSupplied(method, i, args, kwargs) \/ SlotOmitted(method, i, args, kwargs)

C22_Resolved(method, after) ==
    (Reconstructs(method, after) /\ C22_OnlyDefaultsMissing(method, after.args, after.kwargs))
    => /\ after.exc = "ok"
       /\ after.pc = "coroutine"
       /\ \A i \in DefaultSlots(method) :
              SlotOmitted(method, i, after.args, after.kwargs)
                  => after.coro.args[i] = method.args_defaults[i - method.default_args_start_at]

\* C22: in argument reconstruction a slot whose parameter declares a default
\* never causes the argument error: when neither a positional nor a keyword
\* argument is supplied for it, the slot resolves to the declared default,
\* whatever that default is, a null default included.
C22_DefaultedSlotNeverFails ==
    [][C22_Resolved(Descriptor(op'.obj, op'.key), op')]_vars


-----------------------------------------------------------------------------
(* Claims about a request that completes normally *)

\* The values a message carries, in order
Payload(message) ==
    IF message.data = <<>> THEN <<>> ELSE message.data[1].values

\* The step in which a dispatched request completes normally
C23_Completes ==
    /\ op.type = "call_from_dbus"
    /\ op.pc = "running"
    /\ op'.pc = "done"
    /\ op'.exc = "ok"

C23_ArgsFor(contents) ==
    IF contents.type = "tuple" THEN contents.items
    ELSE IF contents.type = "NoneType" THEN <<>>
    ELSE <<contents>>

C23_PayloadFor(reply_data) ==
    IF reply_data.type = "tuple" THEN reply_data.items
    ELSE IF reply_data.type = "NoneType" THEN <<>>
    ELSE <<reply_data>>

C23_Step ==
    C23_Completes =>
        /\ Len(invoked') = 1
        /\ invoked'[1].function = Descriptor(op.obj, op.key).original_method
        /\ invoked'[1].self = op.obj
        /\ invoked'[1].args = C23_ArgsFor(op.args[1].contents)
        /\ invoked'[1].kwargs = <<>>
        /\ sent = <<>>
        /\ Len(sent') = 1
        /\ sent'[1].kind = "method_return"
        /\ sent'[1].member = op.args[1].member
        /\ Len(sent'[1].data) <= 1
        /\ Payload(sent'[1]) = C23_PayloadFor(op'.value)

\* C23: server-side inbound dispatch that completes normally calls the
\* local implementation once, with the decoded payload unpacked into
\* positional arguments when it is a tuple, with no arguments when it is
\* empty and with the single value otherwise; after the implementation has
\* finished it sends exactly one reply, which carries each element of a
\* tuple result, the sole value of a single non-null result, and nothing for
\* a null result.
C23_NormalDispatchCallsOnceRepliesOnce == [][C23_Step]_vars

\* A request with an empty payload was dispatched to a method without
\* arguments, whose tuple result went into the one reply
C23_Witness ==
    /\ op.type = "call_from_dbus"
    /\ op.pc = "done"
    /\ op.exc = "ok"
    /\ op.key = "child_method"
    /\ op.args[1].contents = None
    /\ op.value.type = "tuple"
    /\ Len(invoked) = 1
    /\ invoked[1].args = <<>>
    /\ Len(sent) = 1
    /\ Payload(sent[1]) = op.value.items


-----------------------------------------------------------------------------
(* Claims about what a subscriber yields *)

\* The step is the generator's yield of a value
IsReceiveBy(id) == op = Idle /\ op'.type = "receive" /\ op'.args = <<id>>

\* The generator's queue is registered and stays referenced over the step
StaysLive(id) ==
    /\ subscribers[id].pc = "local"
    /\ subscribers[id].alive
    /\ subscribers'[id].alive

\* What one step does to the backlog of a live subscriber: an emit of its
\* signal on its instance adds the value at the end, its own yield takes the
\* value at the front, anything else leaves the backlog as it is
C24_Backlog(id) ==
    IF IsEmit
    THEN IF op'.obj = subscribers[id].obj /\ op'.key = subscribers[id].key
         THEN subscribers'[id].items = Append(subscribers[id].items, op'.args[1])
         ELSE subscribers'[id].items = subscribers[id].items
    ELSE IF IsReceiveBy(id)
    THEN /\ subscribers[id].items # <<>>
         /\ op'.value = Head(subscribers[id].items)
         /\ subscribers'[id].items = Tail(subscribers[id].items)
    ELSE subscribers'[id].items = subscribers[id].items

C24_Step == \A id \in Made : StaysLive(id) => C24_Backlog(id)

\* C24: for every local subscriber that stays live, the values it yields
\* are exactly the values emitted on that signal of that instance after its
\* queue was registered, in emission order, each once, none lost and none
\* duplicated; emissions of another signal or on another instance are never
\* delivered to it.
C24_SubscriberYieldsWhatWasEmitted == [][C24_Step]_vars


\* The live generators obtained for the signal of the instance, whether or
\* not their first value was awaited yet
Obtained(obj, key) ==
    {id \in Made : /\ subscribers[id].obj = obj
                   /\ subscribers[id].key = key
                   /\ subscribers[id].alive
                   /\ subscribers[id].pc \in {"created", "local"}}

\* An emit on an instance that is not a proxy, with no collected queue left
\* in the list, puts the value in the backlog of every generator obtained
\* before it; a value that never enters the backlog is never yielded
C25_Step ==
    (/\ IsEmit
     /\ ~ProxyBound(op'.obj)
     /\ DroppedSubscribers(op'.obj, op'.key) = {})
        => \A id \in Obtained(op'.obj, op'.key) :
               subscribers'[id].items = Append(subscribers[id].items, op'.args[1])

\* C25: the backlog of a subscription starts when the consumer obtains the
\* iterator: every value emitted after that is kept for it and eventually
\* yielded, the values emitted before its first await of a value included.
C25_BacklogStartsAtSubscription == [][C25_Step]_vars


-----------------------------------------------------------------------------
(* Claims about the members start_serving registers *)

\* The step is a start_serving of the unbound instance
Serves(obj) ==
    /\ op = Idle
    /\ op'.type = "start_serving"
    /\ op'.obj = obj
    /\ Unbound(obj)

\* The signal members of the instance's class that have serving enabled
ServedSignals(obj) ==
    {key \in MembersOfType(objects[obj].cls, "DbusSignal") :
        /\ Descriptor(obj, key).serving_enabled
        /\ Descriptor(obj, key).interface_name # None}

\* The registration carries the signal's name, signature, argument names
\* and flags
HoldsSignal(registration, signal) ==
    \E j \in DOMAIN registration.interface.members :
        /\ registration.interface.members[j].add = "add_signal"
        /\ registration.interface.members[j].name = signal.signal_name
        /\ registration.interface.members[j].signature = signal.signature
        /\ registration.interface.members[j].input_args_names = signal.args_names
        /\ registration.interface.members[j].flags = signal.flags

C26_Step ==
    \A obj \in DOMAIN objects :
        (Serves(obj) /\ op'.exc = "ok" /\ ServedSignals(obj) # {})
            => /\ ServerActivated(obj)'
               /\ \A key \in ServedSignals(obj) :
                      \E i \in DOMAIN registered' :
                          /\ registered'[i].object_path = op'.args[1]
                          /\ registered'[i].interface_name = Descriptor(obj, key).interface_name
                          /\ HoldsSignal(registered'[i], Descriptor(obj, key))

\* C26: after start-serving, every serving-enabled signal declared on the
\* instance's class hierarchy is in the registration of its interface, as
\* metadata (name, signature, argument names, flags); an object whose only
\* serving-enabled members are signals ends up with an active
\* registration, so that its later emits are broadcast on the bus.
C26_SignalsAreRegistered == [][C26_Step]_vars

\* The method and property members with serving enabled that were declared
\* on a class without an interface name
NamelessMembers(obj) ==
    {key \in ServingEnabled(obj) : Descriptor(obj, key).interface_name = None}

C27_Step ==
    \A obj \in DOMAIN objects :
        (Serves(obj) /\ NamelessMembers(obj) # {})
            => /\ op'.exc = "ok"
               /\ \A key \in NamelessMembers(obj) :
                      \A i \in DOMAIN registered' : ~Holds(registered'[i], Descriptor(obj, key))
               /\ \A i \in DOMAIN registered' : registered'[i].interface_name # None

\* C27: start-serving only considers members whose descriptor has serving
\* enabled and an interface name that is not null: a serving-enabled member
\* declared on a class without an interface name is left out of every
\* registration and does not make start-serving fail, nor leave the
\* instance with a bus handle and a serving path set but nothing registered.
C27_NamelessMemberIsLeftOut == [][C27_Step]_vars


-----------------------------------------------------------------------------
(* Claims about the lifetime of a binding mode *)

\* The handles the instance had are still the first of its handles; every
\* handle a start_serving of the instance registered with the engine is a
\* new object, so its list has grown by their number
KeepsHandles(obj) ==
    /\ Len(Registrations(obj)') >= Len(Registrations(obj))
    /\ SubSeq(Registrations(obj)', 1, Len(Registrations(obj))) = Registrations(obj)
    /\ (op = Idle /\ op'.type = "start_serving" /\ op'.obj = obj)
           => Len(Registrations(obj)') - Len(Registrations(obj))
                  = Len(registered') - Len(registered)

C28_Step ==
    \A obj \in DOMAIN objects :
        /\ obj \in DOMAIN objects'
        /\ ProxyBound(obj) => ProxyBound(obj)'
        /\ ServerActivated(obj) =>
               /\ ServerActivated(obj)'
               /\ KeepsHandles(obj)
               /\ objects'[obj].attrs.serving_object_path # None

\* C28: the binding mode reached is terminal: once an instance is
\* proxy-bound it remains proxy-bound in every later state, and once it has
\* a list of registered interface handles that is not empty, no operation
\* removes a handle or clears the serving path.
C28_BindingModeIsTerminal == [][C28_Step]_vars

\* An instance that was served, made a proxy and served again: it is still
\* proxy-bound and holds the handles of both servings
C28_Witness ==
    /\ op.type = "start_serving"
    /\ op.exc = "ok"
    /\ ProxyBound(op.obj)
    /\ Len(Registrations(op.obj)) = 2
    /\ Registrations(op.obj)[1] = registered[1].interface
    /\ Registrations(op.obj)[2] = registered[2].interface
    /\ objects[op.obj].attrs.serving_object_path # None


-----------------------------------------------------------------------------
(* Claims about the default bus *)

\* The step is a request for the default bus
IsGetBus == op = Idle /\ op'.type = "get_bus"

C29_Step ==
    /\ Len(opened') <= 1
    /\ IsGetBus =>
           /\ op'.exc = "ok"
           /\ Len(opened') = 1
           /\ op'.value = opened'[1]
           /\ opened # <<>> => opened' = opened

\* C29: across any sequence of requests for the default bus handle, the
\* bus engine's open operation is invoked at most once, on the first
\* request only, and every request returns that same handle.
C29_DefaultBusOpensOnce == [][C29_Step]_vars

\* A request made after an instance was connected with the handle of an
\* earlier request
C29_Witness ==
    /\ op.type = "get_bus"
    /\ Len(opened) = 1
    /\ op.value = opened[1]
    /\ DEFAULT_BUS = opened[1]
    /\ \E obj \in DOMAIN objects : objects[obj].attrs.attached_bus = op.value


-----------------------------------------------------------------------------
(* Claims about the arguments of a request *)

\* The values the caller or the declaration offers for the parameter at
\* place i: the positional argument at the place, the keyword argument of
\* its name, its declared default
SlotSources(method, i, args, kwargs) ==
    {args[j] : j \in {i} \cap DOMAIN args}
        \cup {kwargs[name] : name \in {method.args_names[i]} \cap DOMAIN kwargs}
        \cup {method.args_defaults[j - method.default_args_start_at] :
                 j \in {i} \cap DefaultSlots(method)}

C30_Carries(method, message, args, kwargs) ==
    /\ message.kind = "method_call"
    /\ Len(message.data) = (IF method.num_of_args = 0 THEN 0 ELSE 1)
    /\ Len(Payload(message)) = method.num_of_args
    /\ \A i \in 1 .. method.num_of_args :
           Payload(message)[i] \in SlotSources(method, i, args, kwargs)

C30_Step ==
    C8_Sends => /\ Len(sent') = 1
                /\ C30_Carries(Descriptor(op.obj, op.key), sent'[1], op.args, op.kwargs)

\* C30: every request message sent by a method call on a proxy-bound
\* instance carries exactly as many arguments as the descriptor's declared
\* positional parameter count, with no payload appended when that count is
\* zero, in declared parameter order, whether the call took the exact-count
\* path or the reconstruction path and whatever number of positional and
\* keyword arguments the caller passed.
C30_RequestCarriesDeclaredCount == [][C30_Step]_vars

\* A request built by the reconstruction path from two positional
\* arguments and a keyword argument
C30_Witness ==
    /\ op.type = "call"
    /\ op.pc = "awaiting"
    /\ op.key = "method_abcd"
    /\ Len(op.args) = 2
    /\ DOMAIN op.kwargs = {"c"}
    /\ Len(sent) = 1
    /\ Len(Payload(sent[1])) = 4
    /\ Payload(sent[1])[3] = op.kwargs["c"]


-----------------------------------------------------------------------------
(* Claims about the state of an instance *)

\* The attributes __init__ gives an instance besides those _connect assigns
InitialisedFields == {"activated_interfaces", "serving_object_path", "_local_signal_queues"}

\* The instance has the fields, and while it was never served and never
\* subscribed to they hold what __init__ assigns
C31_Defined(attrs) ==
    /\ InitialisedFields \subseteq DOMAIN attrs
    /\ attrs.serving_object_path = None => attrs.activated_interfaces = <<>>

\* C31: every instance has fully initialised per-instance state however it
\* was created: an instance obtained from the connect-as-proxy factory has,
\* like one built by the constructor, an empty list of registered interface
\* handles, no serving path and an empty local-subscriber map, so that emit,
\* local subscription and start-serving on it read defined state and do not
\* fail on a missing field.
C31_EveryInstanceIsInitialised ==
    /\ \A obj \in DOMAIN objects : C31_Defined(objects[obj].attrs)
    /\ op.type \in {"emit", "anext", "start_serving"} => op.exc # "AttributeError"

=========================================================================
